---- MODULE Spec2Model ----
(***************************************************************************)
(* hanko: resolution of signers' SSH signing keys from GitHub / GitLab     *)
(* sources and serialisation into an OpenSSH allowed_signers file.         *)
(*                                                                         *)
(* Strings are sequences of bytes (Rust `String` compares bytewise), the   *)
(* target file is a sequence of bytes, a DateTime<FixedOffset> is the UTC  *)
(* date (days since 1970-01-01), the UTC second of the day, the nanosecond *)
(* fraction and the offset in seconds, as chrono stores it.                *)
(***************************************************************************)
EXTENDS Integers, Sequences, FiniteSets, TLC

VARIABLES
    prior,        \* content of the target path before the run (NoFile or bytes)
    disk,         \* content of the target path now
    creates,      \* number of successful fs::File::create calls on the path
    pc,           \* position of allowed_signers::update
    sState,       \* per signer: state of its task in the outer JoinSet
    sKeys,        \* per signer: `keys` accumulated by Signer::get_keys
    sOut,         \* per signer: output of Signer::get_entries
    tState,       \* per (signer, source): state of its task in the signer's JoinSet
    tUrl,         \* per (signer, source): `next_url` of get_keys_by_username
    tKeys,        \* per (signer, source): `keys` of get_keys_by_username
    tPages,       \* per (signer, source): pages received so far, with their URLs
    tRes,         \* per (signer, source): result of get_keys_by_username
    tOut,         \* per (signer, source): output of the task
    entries,      \* Vec<Entry> handed to File::from_entries
    resOut,       \* result of get_entries(signers)
    file_entries, \* File.entries, the BTreeSet in iteration order
    idx,          \* File::write: index of the next entry to write
    buf,          \* File::write: bytes held by the BufWriter
    ioFailed,     \* an I/O operation on the target file has failed
    writeOut,     \* result of File::write
    runOut,       \* result of allowed_signers::update
    wire,         \* adapter called on its own: the answer to its last request
    newArgs,      \* arguments of the Entry::new calls that build `entries`
    cli,          \* `signer add`: the arguments of the command line
    config,       \* `signer add`: the Configuration held by entrypoint
    configFile,   \* `signer add`: content of the configuration path
    cliOut        \* `signer add`: what entrypoint returns and prints

vars == <<prior, disk, creates, pc, sState, sKeys, sOut, tState, tUrl, tKeys,
          tPages, tRes, tOut, entries, resOut, file_entries, idx, buf, ioFailed,
          writeOut, runOut, wire, newArgs, cli, config, configFile, cliOut>>

\* The variables of `signer add`, and those of the stand-alone calls.
cliVars == <<cli, config, configFile, cliOut>>
unitVars == <<wire, newArgs>>

----------------------------------------------------------------------------
(* Bounds *)

\* Requests one get_keys_by_username call may make.
MaxPages == 2
\* Entries handed to File::from_entries in the file-level specification.
MaxEntries == 3
\* Capacity of the BufWriter (scaled down from the library default).
BufCap == 48

----------------------------------------------------------------------------
(* Option, Result and byte strings *)

None == <<>>
Some(x) == <<x>>

Ok(v) == [ok |-> TRUE, val |-> v, err |-> "", status |-> 0]
Err(kind, status) == [ok |-> FALSE, val |-> <<>>, err |-> kind, status |-> status]
Pending == [ok |-> FALSE, val |-> <<>>, err |-> "pending", status |-> 0]

NoFile == <<-1>>

StrComma == <<44>>
StrSpace == <<32>>
StrNewline == <<10>>
StrZ == <<90>>
StrPlus == <<43>>
StrValidAfter == <<32, 118, 97, 108, 105, 100, 45, 97, 102, 116, 101, 114, 61>>
StrValidBefore == <<32, 118, 97, 108, 105, 100, 45, 98, 101, 102, 111, 114, 101, 61>>

PA == <<97, 64, 120>>
PB == <<98, 64, 120>>
K1 == <<107, 49>>
K2 == <<107, 50>>
KA == <<107, 65>>
Dust == <<103, 97, 116, 104, 101, 114, 101, 100, 32, 100, 117, 115, 116>>

RECURSIVE Concat(_)
Concat(ss) == IF ss = <<>> THEN <<>> ELSE Head(ss) \o Concat(Tail(ss))

Range(s) == {s[i] : i \in 1..Len(s)}

\* Ordering results
Less == "Less"
Equal == "Equal"
Greater == "Greater"

IntCmp(a, b) == IF a < b THEN Less ELSE IF a > b THEN Greater ELSE Equal

\* <[T] as Ord>::cmp for byte strings: lexicographic, a prefix is smaller.
RECURSIVE StrCmp(_, _)
StrCmp(a, b) ==
    IF a = <<>> THEN (IF b = <<>> THEN Equal ELSE Less)
    ELSE IF b = <<>> THEN Greater
    ELSE IF Head(a) # Head(b) THEN IntCmp(Head(a), Head(b))
    ELSE StrCmp(Tail(a), Tail(b))

\* <Vec<String> as Ord>::cmp: lexicographic over the elements.
RECURSIVE VecStrCmp(_, _)
VecStrCmp(a, b) ==
    IF a = <<>> THEN (IF b = <<>> THEN Equal ELSE Less)
    ELSE IF b = <<>> THEN Greater
    ELSE IF StrCmp(Head(a), Head(b)) # Equal THEN StrCmp(Head(a), Head(b))
    ELSE VecStrCmp(Tail(a), Tail(b))

----------------------------------------------------------------------------
(* chrono::DateTime<FixedOffset> *)

DaySecs == 24 * 3600

\* A timestamp given as local date/time and offset (RFC 3339 text, or
\* Local.with_ymd_and_hms(..).into()): the stored instant is local - offset.
DateTimeFromLocal(ldate, lsecs, frac, off) ==
    LET t == lsecs - off
    IN  IF t < 0 THEN [date |-> ldate - 1, secs |-> t + DaySecs, frac |-> frac, off |-> off]
        ELSE IF t >= DaySecs THEN [date |-> ldate + 1, secs |-> t - DaySecs, frac |-> frac, off |-> off]
        ELSE [date |-> ldate, secs |-> t, frac |-> frac, off |-> off]

\* Variant: the offset is kept, so the local time is what gets formatted.
to_utc_keep_offset(dt) == dt

\* DateTime::to_utc: same instant, offset zero.
to_utc(dt) == [dt EXCEPT !.off = 0]

\* DateTime::naive_local: the instant shifted by the carried offset.
naive_local(dt) ==
    LET t == dt.secs + dt.off
    IN  IF t < 0 THEN [date |-> dt.date - 1, secs |-> t + DaySecs]
        ELSE IF t >= DaySecs THEN [date |-> dt.date + 1, secs |-> t - DaySecs]
        ELSE [date |-> dt.date, secs |-> t]

\* <DateTime as Ord>::cmp compares the instants; the offset takes no part.
DateTimeCmp(a, b) ==
    IF a.date # b.date THEN IntCmp(a.date, b.date)
    ELSE IF a.secs # b.secs THEN IntCmp(a.secs, b.secs)
    ELSE IntCmp(a.frac, b.frac)

\* Variant: None sorts after Some.
OptDateTimeCmp_none_last(a, b) ==
    IF a = None THEN (IF b = None THEN Equal ELSE Greater)
    ELSE IF b = None THEN Less
    ELSE DateTimeCmp(a[1], b[1])

\* <Option<DateTime> as Ord>::cmp: None sorts before Some.
OptDateTimeCmp(a, b) ==
    IF a = None THEN (IF b = None THEN Equal ELSE Less)
    ELSE IF b = None THEN Greater
    ELSE DateTimeCmp(a[1], b[1])

\* Proleptic Gregorian (year, month, day) of a day number.
CivilFromDays(days) ==
    LET z == days + 719468
        era == z \div 146097
        doe == z - era * 146097
        yoe == (doe - (doe \div 1460) + (doe \div 36524) - (doe \div 146096)) \div 365
        doy == doe - (365 * yoe + (yoe \div 4) - (yoe \div 100))
        mp == (5 * doy + 2) \div 153
        d == doy - ((153 * mp + 2) \div 5) + 1
        m == IF mp < 10 THEN mp + 3 ELSE mp - 9
        y == yoe + era * 400 + (IF m <= 2 THEN 1 ELSE 0)
    IN  [y |-> y, m |-> m, d |-> d]

Digit(n) == 48 + n
Pad2(n) == <<Digit(n \div 10), Digit(n % 10)>>
Pad4(n) == <<Digit(n \div 1000), Digit((n \div 100) % 10), Digit((n \div 10) % 10), Digit(n % 10)>>
\* %Y: four digits for the years 0..9999, a sign and five digits beyond.
Year(y) == IF y <= 9999 THEN Pad4(y) ELSE StrPlus \o <<Digit(y \div 10000)>> \o Pad4(y % 10000)

\* DateTime::format("%Y%m%d%H%M%S"): the fields of the local date and time.
format(dt) ==
    LET l == naive_local(dt)
        c == CivilFromDays(l.date)
    IN  Year(c.y) \o Pad2(c.m) \o Pad2(c.d)
        \o Pad2(l.secs \div 3600) \o Pad2((l.secs \div 60) % 60) \o Pad2(l.secs % 60)

----------------------------------------------------------------------------
(* allowed_signers::file: PublicKey, Entry *)

PublicKey(blob, valid_after, valid_before) ==
    [blob |-> blob, valid_after |-> valid_after, valid_before |-> valid_before]

\* Variant: keys are compared by their blob alone.
PublicKeyCmp_blob_only(a, b) == StrCmp(a.blob, b.blob)

\* #[derive(Ord)] on PublicKey: blob, valid_after, valid_before in this order.
PublicKeyCmp(a, b) ==
    IF StrCmp(a.blob, b.blob) # Equal THEN StrCmp(a.blob, b.blob)
    ELSE IF OptDateTimeCmp(a.valid_after, b.valid_after) # Equal
         THEN OptDateTimeCmp(a.valid_after, b.valid_after)
    ELSE OptDateTimeCmp(a.valid_before, b.valid_before)

\* #[derive(Ord)] on Entry: principals, then key.
EntryCmp(a, b) ==
    IF VecStrCmp(a.principals, b.principals) # Equal
    THEN VecStrCmp(a.principals, b.principals)
    ELSE PublicKeyCmp(a.key, b.key)

\* A panic with its message.
Panic(msg) == [panic |-> msg]
IsPanic(x) == DOMAIN x = {"panic"}

\* Variant: the principals are stored without looking at them.
Entry_new_unchecked(principals, key) == [principals |-> principals, key |-> key]

\* Entry::new
Entry_new(principals, key) ==
    IF principals = <<>> THEN Panic("signer entry requires at least one principal")
    ELSE [principals |-> principals, key |-> key]

\* [String]::join(",")
RECURSIVE join(_, _)
join(v, sep) ==
    IF v = <<>> THEN <<>>
    ELSE IF Len(v) = 1 THEN v[1]
    ELSE v[1] \o sep \o join(Tail(v), sep)

\* <Entry as fmt::Display>::fmt
Entry_fmt(e) ==
    join(e.principals, StrComma)
    \o (IF e.key.valid_after # None
        THEN StrValidAfter \o format(to_utc(e.key.valid_after[1])) \o StrZ
        ELSE <<>>)
    \o (IF e.key.valid_before # None
        THEN StrValidBefore \o format(to_utc(e.key.valid_before[1])) \o StrZ
        ELSE <<>>)
    \o StrSpace \o e.key.blob

\* BTreeSet::from_iter sorts the input with a stable sort ...
RECURSIVE InsertSorted(_, _)
InsertSorted(s, e) ==
    IF s = <<>> THEN <<e>>
    ELSE IF EntryCmp(e, Head(s)) = Less THEN <<e>> \o s
    ELSE <<Head(s)>> \o InsertSorted(Tail(s), e)

RECURSIVE SortStable(_)
SortStable(v) ==
    IF v = <<>> THEN <<>>
    ELSE InsertSorted(SortStable(SubSeq(v, 1, Len(v) - 1)), v[Len(v)])

\* ... and builds the tree from the sorted run, keeping the last of equal elements.
RECURSIVE DedupSorted(_)
DedupSorted(s) ==
    IF Len(s) <= 1 THEN s
    ELSE IF EntryCmp(s[1], s[2]) = Equal THEN DedupSorted(Tail(s))
    ELSE <<s[1]>> \o DedupSorted(Tail(s))

\* File::from_entries: entries.into_iter().collect() into the BTreeSet,
\* represented by its elements in iteration (ascending) order.
from_entries(es) == DedupSorted(SortStable(es))

----------------------------------------------------------------------------
(* Timestamps and entries of the file-level specification *)

T2030z == DateTimeFromLocal(21915, 0, 0, 0)
T2030p == DateTimeFromLocal(21915, 3600, 0, 3600)
T2024w == DateTimeFromLocal(19824, 22 * 3600, 0, 0 - 5 * 3600)
T2025z == DateTimeFromLocal(20188, 0, 0, 0)
\* Half a second after T2030z.
T2030h == DateTimeFromLocal(21915, 0, 500000000, 0)
\* One principal whose text holds a comma: "a@x,b@x".
PAB == PA \o StrComma \o PB

EntryPool ==
    { Entry_new(<<PA>>, PublicKey(K1, None, None)),
      Entry_new(<<PA>>, PublicKey(K1, None, Some(T2030z))),
      Entry_new(<<PA>>, PublicKey(K1, None, Some(T2030p))),
      Entry_new(<<PA>>, PublicKey(K1, Some(T2024w), None)),
      Entry_new(<<PA, PB>>, PublicKey(K1, None, None)),
      Entry_new(<<PB, PA>>, PublicKey(K1, None, None)),
      Entry_new(<<PB>>, PublicKey(K2, Some(T2024w), Some(T2030z))),
      Entry_new(<<PA>>, PublicKey(K2, None, Some(T2025z))),
      Entry_new(<<PA>>, PublicKey(K1, None, Some(T2030h))),
      Entry_new(<<PAB>>, PublicKey(K1, None, None)) }

\* Arguments of Entry::new: those of the entries above, and one call with
\* no principal.
NewArgsPool ==
    {[principals |-> e.principals, key |-> e.key] : e \in EntryPool}
    \cup {[principals |-> <<>>, key |-> PublicKey(K1, None, None)]}

SeqsUpTo(S, n) == UNION {[1..k -> S] : k \in 0..n}


----------------------------------------------------------------------------
(* Configuration handed to the run: signers and their sources *)

Providers == [github |-> "GitHub", gitlab |-> "GitLab"]

Signers ==
    << [name |-> "jsnow", principals |-> <<PA>>, sources |-> <<"github", "gitlab">>],
       [name |-> "ernie", principals |-> <<PB, PA>>, sources |-> <<"gitlab">>] >>

SignerIds == DOMAIN Signers
SourceIds(i) == DOMAIN Signers[i].sources
provider(i, j) == Providers[Signers[i].sources[j]]

----------------------------------------------------------------------------
(* What a server may answer to one request *)

\* URLs of one user's key listing, as texts: "h://a/1" (the URL the adapter
\* builds from its base URL and the username) and "h://a/2".
FirstUrl == <<104, 58, 47, 47, 97, 47, 49>>
NextUrl == <<104, 58, 47, 47, 97, 47, 50>>
Urls == {FirstUrl, NextUrl}

\* Values of the `Link` header: None when the header is absent.
\*   <u>; rel="next"
LinkNext(u) == Some(<<60>> \o u \o <<62, 59, 32, 114, 101, 108, 61, 34, 110, 101, 120, 116, 34>>)
LinkAbsent == None
\*   <h://a/2; rel="next"          (no closing bracket)
LinkNoClose == Some(<<60, 104, 58, 47, 47, 97, 47, 50, 59, 32, 114, 101, 108, 61, 34,
                      110, 101, 120, 116, 34>>)
\*   <h://a/2>; rel=""             (empty rel)
LinkEmptyRel == Some(<<60, 104, 58, 47, 47, 97, 47, 50, 62, 59, 32, 114, 101, 108, 61, 34, 34>>)
\*   </2>; rel="next"              (a URL without a scheme)
LinkBadUrl == Some(<<60, 47, 50, 62, 59, 32, 114, 101, 108, 61, 34, 110, 101, 120, 116, 34>>)
\*   one byte 0xFF                 (not visible ASCII)
LinkNotText == Some(<<255>>)
\*   <h://a/2>; rel="last"
LinkLast == Some(<<60, 104, 58, 47, 47, 97, 47, 50, 62, 59, 32, 114, 101, 108, 61, 34,
                   108, 97, 115, 116, 34>>)
\*   <h://a/1>; rel="prev", <h://a/2>; rel="next"
LinkPrevNext == Some(<<60, 104, 58, 47, 47, 97, 47, 49, 62, 59, 32, 114, 101, 108, 61, 34,
                       112, 114, 101, 118, 34, 44, 32, 60, 104, 58, 47, 47, 97, 47, 50, 62,
                       59, 32, 114, 101, 108, 61, 34, 110, 101, 120, 116, 34>>)
\*   <H://a/1>; rel=next           (scheme in upper case, rel without quotes)
LinkUpperFirst == Some(<<60, 72, 58, 47, 47, 97, 47, 49, 62, 59, 32, 114, 101, 108, 61,
                         110, 101, 120, 116>>)
\*   <h://a/2>; rel="next", <h://a/1>; rel="next"
LinkTwoNext == Some(<<60, 104, 58, 47, 47, 97, 47, 50, 62, 59, 32, 114, 101, 108, 61, 34, 110, 101, 120, 116, 34, 44, 32,
                      60, 104, 58, 47, 47, 97, 47, 49, 62, 59, 32, 114, 101, 108, 61, 34, 110, 101, 120, 116, 34>>)
LinkMalformed == LinkNoClose

\* Headers of the full run, and of an adapter called on its own.
Links == {LinkAbsent, LinkMalformed} \cup {LinkNext(u) : u \in Urls}
MalformedLinks == {LinkNoClose, LinkEmptyRel, LinkBadUrl, LinkNotText}
WireLinks == Links \cup MalformedLinks \cup {LinkLast, LinkPrevNext, LinkUpperFirst, LinkTwoNext}

\* Values of x-ratelimit-remaining and x-ratelimit-reset.
Hdr59 == Some(<<53, 57>>)
HdrReset == Some(<<49, 55, 48, 48, 48, 48, 48, 48, 48, 48>>)
HdrAbc == Some(<<97, 98, 99>>)
HdrMinusOne == Some(<<45, 49>>)
HdrNotText == Some(<<255>>)
HdrFarReset == Some(<<57, 57, 57, 57, 57, 57, 57, 57, 57, 57, 57, 57, 57, 57>>)

Ratelimit(remaining, reset) == [remaining |-> remaining, reset |-> reset]
RatelimitAbsent == Ratelimit(None, None)
RatelimitValid == Ratelimit(Hdr59, HdrReset)
WireRatelimits ==
    { RatelimitAbsent, RatelimitValid, Ratelimit(Hdr59, None), Ratelimit(HdrAbc, HdrReset),
      Ratelimit(HdrMinusOne, HdrReset), Ratelimit(HdrNotText, None),
      Ratelimit(Hdr59, HdrAbc), Ratelimit(None, HdrNotText), Ratelimit(Hdr59, HdrFarReset) }

\* `message` of the JSON body of an error answer.
MsgNotFound == <<78, 111, 116, 32, 70, 111, 117, 110, 100>>
MsgBadCredentials == <<66, 97, 100, 32, 99, 114, 101, 100, 101, 110, 116, 105, 97, 108, 115>>
MsgRateLimit == <<65, 80, 73, 32, 82, 97, 116, 101, 32, 76, 105, 109, 105, 116, 32, 69, 120,
                  99, 101, 101, 100, 101, 100>>
MsgForbidden == <<70, 111, 114, 98, 105, 100, 100, 101, 110>>
WireMessages == {MsgNotFound, MsgBadCredentials, MsgRateLimit, MsgForbidden}

\* expires_at as sent by GitLab: local date and time with an offset.
Wire2025z == [ldate |-> 20188, lsecs |-> 0, frac |-> 0, off |-> 0]
Wire2025p == [ldate |-> 20188, lsecs |-> 3600, frac |-> 0, off |-> 7200]

ApiSshKey(key, usage_type, expires_at) ==
    [key |-> key, usage_type |-> usage_type, expires_at |-> expires_at]

\* Pages a server may hold at a URL of the listing.
GithubPages(url) ==
    IF url = FirstUrl THEN { <<>>, <<ApiSshKey(K1, "", None)>> }
    ELSE { <<ApiSshKey(K2, "", None)>> }

GitlabPages(url) ==
    IF url = FirstUrl
    THEN { <<ApiSshKey(KA, "auth", None)>>,
           <<ApiSshKey(K1, "signing", None), ApiSshKey(KA, "auth", Some(Wire2025z)),
             ApiSshKey(K2, "auth_and_signing", Some(Wire2025p))>> }
    ELSE { <<ApiSshKey(KA, "auth", None), ApiSshKey(K2, "signing", Some(Wire2025z))>> }

\* reqwest::Error: its kind, what its source chain holds (a connect error,
\* a timeout, or neither) and the status it carries.
ReqwestError(kind, cause, status) == [kind |-> kind, cause |-> cause, status |-> status]

\* Outcome of client.execute(request) and of reading the body: either the
\* request fails with a reqwest::Error of kind Request, or a response
\* arrives with its status, headers and body.  `body` tells how reading the
\* body as JSON of the expected type ends: "ok", "decode" (not such JSON),
\* "body" (the read fails) or "timeout" (the read times out).
Transport(cause) ==
    [kind |-> "request", cause |-> cause, status |-> 0, msg |-> <<>>, link |-> LinkAbsent,
     ratelimit |-> RatelimitAbsent, body |-> "ok", page |-> <<>>]
Response(status, msg, link, ratelimit, body, page) ==
    [kind |-> "response", cause |-> "none", status |-> status, msg |-> msg, link |-> link,
     ratelimit |-> ratelimit, body |-> body, page |-> page]

\* No request has been answered yet.
NoAnswer ==
    [kind |-> "none", cause |-> "none", status |-> 0, msg |-> <<>>, link |-> LinkAbsent,
     ratelimit |-> RatelimitAbsent, body |-> "ok", page |-> <<>>]

Failures ==
    { Transport("connect"), Transport("timeout"),
      Response(404, MsgNotFound, LinkAbsent, RatelimitAbsent, "ok", <<>>),
      Response(401, MsgBadCredentials, LinkAbsent, RatelimitAbsent, "ok", <<>>),
      Response(500, <<>>, LinkAbsent, RatelimitAbsent, "decode", <<>>) }

GithubOutcomes(url) ==
    Failures
    \cup {Response(200, <<>>, l, RatelimitAbsent, "ok", p) : l \in Links, p \in GithubPages(url)}
    \cup {Response(200, <<>>, LinkAbsent, RatelimitValid, "ok", <<>>)}

GitlabOutcomes(url) ==
    Failures
    \cup {Response(200, <<>>, l, RatelimitAbsent, "ok", p) : l \in Links, p \in GitlabPages(url)}

\* Answers to an adapter called on its own: every error status with every
\* body, and every page with every header and every end of the body read.
WireStatuses == {400, 401, 403, 404, 429, 500, 503}
WireBodies == {"ok", "decode", "body", "timeout"}

\* client.execute fails because the redirect policy of the client (at most
\* ten redirects, no loop) stops following: a reqwest::Error of kind
\* Redirect.
TooManyRedirects == [Transport("none") EXCEPT !.kind = "redirect"]

\* Transport("none"): a request error that is neither a connect error nor a
\* timeout (the connection is closed before the response is complete).
WireFailures ==
    { Transport("connect"), Transport("timeout"), Transport("none"), TooManyRedirects }
    \cup {Response(s, m, LinkAbsent, RatelimitAbsent, "ok", <<>>) :
            s \in WireStatuses, m \in WireMessages}
    \cup {Response(s, <<>>, LinkAbsent, RatelimitAbsent, "decode", <<>>) : s \in WireStatuses}

GithubWire(url) ==
    WireFailures
    \cup {Response(200, <<>>, l, r, b, p) :
            l \in WireLinks, r \in WireRatelimits, b \in WireBodies, p \in GithubPages(url)}

GitlabWire(url) ==
    WireFailures
    \cup {Response(200, <<>>, l, r, b, p) :
            l \in WireLinks, r \in {RatelimitAbsent, Ratelimit(HdrAbc, HdrReset)},
            b \in WireBodies, p \in GitlabPages(url)}

----------------------------------------------------------------------------
(* source: errors, headers *)

is_client_error(status) == status >= 400 /\ status <= 499
is_server_error(status) == status >= 500 /\ status <= 599

\* Variant: the kind of the error is looked at before its source chain.
Error_from_kind_first(error) ==
    IF error.kind \in {"body", "decode"} THEN Err("InvalidResponseBody", 0)
    ELSE IF error.cause \in {"connect", "timeout"} THEN Err("ConnectionError", 0)
    ELSE IF error.kind = "status" /\ is_server_error(error.status)
         THEN Err("UnexpectedStatusCode", error.status)
    ELSE IF error.kind = "status" /\ is_client_error(error.status)
         THEN Err("ClientError", error.status)
    ELSE Err("panic", 0)

\* impl From<reqwest::Error> for Error
Error_from(error) ==
    IF error.cause \in {"connect", "timeout"} THEN Err("ConnectionError", 0)
    ELSE IF error.kind = "status" /\ is_server_error(error.status)
         THEN Err("UnexpectedStatusCode", error.status)
    ELSE IF error.kind = "status" /\ is_client_error(error.status)
         THEN Err("ClientError", error.status)
    ELSE IF error.kind \in {"body", "decode"} THEN Err("InvalidResponseBody", 0)
    ELSE Err("panic", 0)

\* The reqwest::Error of response.json() for each end of the body read.
json_error(body) ==
    IF body = "timeout" THEN ReqwestError("body", "timeout", 0)
    ELSE ReqwestError(body, "none", 0)

\* str::split(c): the pieces between the occurrences of c.
RECURSIVE split_from(_, _, _)
split_from(s, c, piece) ==
    IF s = <<>> THEN <<piece>>
    ELSE IF Head(s) = c THEN <<piece>> \o split_from(Tail(s), c, <<>>)
    ELSE split_from(Tail(s), c, Append(piece, Head(s)))

split(s, c) == split_from(s, c, <<>>)

IsWhitespace(c) == c \in {9, 10, 11, 12, 13, 32}

RECURSIVE trim_start(_)
trim_start(s) == IF s # <<>> /\ IsWhitespace(Head(s)) THEN trim_start(Tail(s)) ELSE s

RECURSIVE trim_end(_)
trim_end(s) ==
    IF s # <<>> /\ IsWhitespace(s[Len(s)]) THEN trim_end(SubSeq(s, 1, Len(s) - 1)) ELSE s

trim(s) == trim_end(trim_start(s))

\* str::trim_matches(c)
RECURSIVE trim_matches(_, _)
trim_matches(s, c) ==
    IF s # <<>> /\ Head(s) = c THEN trim_matches(Tail(s), c)
    ELSE IF s # <<>> /\ s[Len(s)] = c THEN trim_matches(SubSeq(s, 1, Len(s) - 1), c)
    ELSE s

strip_prefix(s, p) ==
    IF Len(s) >= Len(p) /\ SubSeq(s, 1, Len(p)) = p THEN Some(SubSeq(s, Len(p) + 1, Len(s)))
    ELSE None

strip_suffix(s, p) ==
    IF Len(s) >= Len(p) /\ SubSeq(s, Len(s) - Len(p) + 1, Len(s)) = p
    THEN Some(SubSeq(s, 1, Len(s) - Len(p)))
    ELSE None

\* Variant: the text is compared as it is.
to_lowercase_keep(s) == s

\* str::to_lowercase on ASCII text
to_lowercase(s) == [k \in 1..Len(s) |-> IF s[k] >= 65 /\ s[k] <= 90 THEN s[k] + 32 ELSE s[k]]

\* str::contains(pat)
contains(s, pat) ==
    \E k \in 0..(Len(s) - Len(pat)) : SubSeq(s, k + 1, k + Len(pat)) = pat

StrRelEq == <<114, 101, 108, 61>>
StrNext == <<110, 101, 120, 116>>
StrRateLimitExceeded == <<114, 97, 116, 101, 32, 108, 105, 109, 105, 116, 32, 101, 120, 99,
                          101, 101, 100, 101, 100>>
StrBadCredentials == <<98, 97, 100, 32, 99, 114, 101, 100, 101, 110, 116, 105, 97, 108, 115>>

MalformedResponseHeader == Err("MalformedResponseHeader", 0)

\* HeaderValue::to_str: the value is text when every byte is visible ASCII.
to_str(value) ==
    IF \A k \in 1..Len(value) : (value[k] >= 32 /\ value[k] < 127) \/ value[k] = 9
    THEN Some(value) ELSE None

\* source::get_header_value, for the value of the named header.
get_header_value(header) ==
    IF header = None THEN Ok(None)
    ELSE IF to_str(header[1]) = None THEN MalformedResponseHeader
    ELSE Ok(to_str(header[1]))

IsDigits(s) == s # <<>> /\ \A k \in 1..Len(s) : s[k] >= 48 /\ s[k] <= 57

\* Decimal numerals without sign: a <= b.
RECURSIVE strip_zeros(_)
strip_zeros(s) == IF Len(s) > 1 /\ Head(s) = 48 THEN strip_zeros(Tail(s)) ELSE s

NumeralLeq(a, b) ==
    LET x == strip_zeros(a)
        y == strip_zeros(b)
    IN  Len(x) < Len(y) \/ (Len(x) = Len(y) /\ StrCmp(x, y) # Greater)

UsizeMax == <<49, 56, 52, 52, 54, 55, 52, 52, 48, 55, 51, 55, 48, 57, 53, 53, 49, 54, 49, 53>>
I64Max == <<57, 50, 50, 51, 51, 55, 50, 48, 51, 54, 56, 53, 52, 55, 55, 53, 56, 48, 55>>
I64MinMagnitude == <<57, 50, 50, 51, 51, 55, 50, 48, 51, 54, 56, 53, 52, 55, 55, 53, 56, 48, 56>>
\* Seconds of the last and (magnitude) of the first instant chrono represents.
TimestampMax == <<56, 50, 49, 48, 50, 54, 54, 56, 55, 54, 55, 57, 57>>
TimestampMinMagnitude == <<56, 51, 51, 52, 54, 48, 49, 50, 50, 56, 56, 48, 48>>

\* <usize as FromStr>::from_str: digits after an optional `+`, within 64 bits.
parse_usize(s) ==
    LET digits == IF s # <<>> /\ Head(s) = 43 THEN Tail(s) ELSE s
    IN  IF IsDigits(digits) /\ NumeralLeq(digits, UsizeMax)
        THEN Some([negative |-> FALSE, digits |-> strip_zeros(digits)])
        ELSE None

\* <i64 as FromStr>::from_str: digits after an optional sign, within 64 bits.
parse_i64(s) ==
    LET negative == s # <<>> /\ Head(s) = 45
        digits == IF s # <<>> /\ Head(s) \in {43, 45} THEN Tail(s) ELSE s
    IN  IF IsDigits(digits) /\ NumeralLeq(digits, IF negative THEN I64MinMagnitude ELSE I64Max)
        THEN Some([negative |-> negative, digits |-> strip_zeros(digits)])
        ELSE None

\* source::parse_header_value::<T>
parse_header_value(header, T) ==
    LET value == get_header_value(header)
        parsed == IF T = "usize" THEN parse_usize(value.val[1]) ELSE parse_i64(value.val[1])
    IN  IF ~value.ok THEN value
        ELSE IF value.val = None THEN Ok(None)
        ELSE IF parsed = None THEN MalformedResponseHeader
        ELSE Ok(parsed)

\* Local.timestamp_opt(secs, 0).single(): the instant, when chrono has one.
timestamp_opt_single(secs) ==
    IF NumeralLeq(secs.digits, IF secs.negative THEN TimestampMinMagnitude ELSE TimestampMax)
    THEN Some(secs) ELSE None

\* Variant: a text without a scheme is taken as a path of the listing's host.
Url_parse_join(text) ==
    IF text # <<>> /\ Head(text) = 47 THEN Some(<<104, 58, 47, 47, 97>> \o text) ELSE Some(text)

\* Url::parse for the texts a `Link` header carries here: a text with a
\* scheme (letters before the first `:`) parses, the scheme in lower case;
\* a text without a scheme is a relative URL and does not parse.
Url_parse(text) ==
    LET colons == {k \in 1..Len(text) : text[k] = 58}
        end == IF colons = {} THEN 0 ELSE CHOOSE k \in colons : \A m \in colons : k <= m
        scheme == SubSeq(text, 1, end - 1)
        letters == \A k \in 1..Len(scheme) : to_lowercase(scheme)[k] >= 97 /\ to_lowercase(scheme)[k] <= 122
    IN  IF end > 1 /\ letters
        THEN Some(to_lowercase(scheme) \o SubSeq(text, end, Len(text)))
        ELSE None

\* The loop over the parameters of one segment of the `Link` value:
\* "invalid" for an empty rel, else whether a rel is "next".
RECURSIVE link_params(_, _)
link_params(parts, is_next) ==
    IF parts = <<>> THEN (IF is_next THEN "next" ELSE "other")
    ELSE LET rel == strip_prefix(trim(Head(parts)), StrRelEq)
         IN  IF rel = None THEN link_params(Tail(parts), is_next)
             ELSE IF trim_matches(rel[1], 34) = <<>> THEN "invalid"
             ELSE link_params(Tail(parts), is_next \/ trim_matches(rel[1], 34) = StrNext)

\* Variant: the segments are looked at from the last to the first.
RECURSIVE link_segments_last(_)
link_segments_last(segments) ==
    IF segments = <<>> THEN Ok(None)
    ELSE LET parts == split(trim(segments[Len(segments)]), 59)
             url_part == trim(Head(parts))
             found == link_params(Tail(parts), FALSE)
             opened == strip_prefix(url_part, <<60>>)
             url == IF opened = None THEN None ELSE strip_suffix(opened[1], <<62>>)
         IN  IF found = "invalid" THEN MalformedResponseHeader
             ELSE IF found = "other"
                  THEN link_segments_last(SubSeq(segments, 1, Len(segments) - 1))
             ELSE IF url = None THEN MalformedResponseHeader
             ELSE IF Url_parse(url[1]) = None THEN MalformedResponseHeader
             ELSE Ok(Url_parse(url[1]))

\* The loop over the segments of the `Link` value.
RECURSIVE link_segments(_)
link_segments(segments) ==
    IF segments = <<>> THEN Ok(None)
    ELSE LET parts == split(trim(Head(segments)), 59)
             url_part == trim(Head(parts))
             found == link_params(Tail(parts), FALSE)
             opened == strip_prefix(url_part, <<60>>)
             url == IF opened = None THEN None ELSE strip_suffix(opened[1], <<62>>)
         IN  IF found = "invalid" THEN MalformedResponseHeader
             ELSE IF found = "other" THEN link_segments(Tail(segments))
             ELSE IF url = None THEN MalformedResponseHeader
             ELSE IF Url_parse(url[1]) = None THEN MalformedResponseHeader
             ELSE Ok(Url_parse(url[1]))

\* source::next_url_from_link_header, for the value of the `Link` header.
next_url_from_link_header(link) ==
    LET link_value == get_header_value(link)
    IN  IF ~link_value.ok THEN link_value
        ELSE IF link_value.val = None THEN Ok(None)
        ELSE link_segments(split(link_value.val[1], 44))

\* Variant: only 404 has a rule of its own.
handle_gitlab_errors_only_404(o) ==
    IF o.kind # "response" THEN Error_from(ReqwestError(o.kind, o.cause, 0))
    ELSE IF o.status >= 400
         THEN IF o.status = 404 THEN Err("UserNotFound", 0)
              ELSE Error_from(ReqwestError("status", "none", o.status))
    ELSE Ok(o)

\* gitlab::handle_gitlab_errors
handle_gitlab_errors(o) ==
    IF o.kind # "response" THEN Error_from(ReqwestError(o.kind, o.cause, 0))
    ELSE IF o.status >= 400
         THEN IF o.status = 404 THEN Err("UserNotFound", 0)
              ELSE IF o.status = 401 THEN Err("BadCredentials", 0)
              ELSE Error_from(ReqwestError("status", "none", o.status))
    ELSE Ok(o)

\* github::handle_github_errors
handle_github_errors(o) ==
    LET message == IF o.kind = "response" /\ o.body = "ok" THEN Some(o.msg) ELSE None
    IN  IF o.kind # "response" THEN Error_from(ReqwestError(o.kind, o.cause, 0))
        ELSE IF o.status >= 400
             THEN IF o.status = 404 THEN Err("UserNotFound", 0)
                  ELSE IF /\ o.status = 403
                          /\ message # None
                          /\ contains(to_lowercase(message[1]), StrRateLimitExceeded)
                       THEN Err("RatelimitExceeded", 0)
                  ELSE IF /\ o.status = 401
                          /\ message # None
                          /\ contains(to_lowercase(message[1]), StrBadCredentials)
                       THEN Err("BadCredentials", 0)
                  ELSE Error_from(ReqwestError("status", "none", o.status))
        ELSE Ok(o)

\* github::log_ratelimit
log_ratelimit(o) ==
    LET ratelimit_remaining == parse_header_value(o.ratelimit.remaining, "usize")
        ratelimit_reset == parse_header_value(o.ratelimit.reset, "i64")
    IN  IF ~ratelimit_remaining.ok THEN ratelimit_remaining
        ELSE IF ~ratelimit_reset.ok THEN ratelimit_reset
        ELSE IF /\ ratelimit_remaining.val # None
                /\ ratelimit_reset.val # None
                /\ timestamp_opt_single(ratelimit_reset.val[1]) = None
             THEN MalformedResponseHeader
        ELSE Ok(<<>>)

\* github::make_api_request
github_make_api_request(o) ==
    IF ~handle_github_errors(o).ok THEN handle_github_errors(o)
    ELSE IF ~log_ratelimit(o).ok THEN log_ratelimit(o)
    ELSE Ok(o)

\* gitlab::make_api_request
gitlab_make_api_request(o) == handle_gitlab_errors(o)

\* Variant: every usage type passes the filter.
is_signing_any(usage_type) == usage_type \in {"auth", "signing", "auth_and_signing"}

\* ApiSshKeyUsage::is_signing
is_signing(usage_type) == usage_type \in {"signing", "auth_and_signing"}

\* Deserialisation of Option<DateTime<FixedOffset>>
deserialize_expires_at(w) ==
    IF w = None THEN None
    ELSE Some(DateTimeFromLocal(w[1].ldate, w[1].lsecs, w[1].frac, w[1].off))

\* Variant: the expiry of the API key is dropped.
gitlab_PublicKey_from_no_expiry(api_key) == PublicKey(api_key.key, None, None)

\* impl From<gitlab::ApiSshKey> for PublicKey
gitlab_PublicKey_from(api_key) ==
    PublicKey(api_key.key, None, deserialize_expires_at(api_key.expires_at))

\* impl From<github::ApiSshKey> for PublicKey
github_PublicKey_from(api_key) == PublicKey(api_key.key, None, None)

IsSigningKey(api_key) == is_signing(api_key.usage_type)

\* all_keys.into_iter().filter(|key| key.usage_type.is_signing()).map(PublicKey::from)
gitlab_signing_keys(all_keys) ==
    LET signing == SelectSeq(all_keys, IsSigningKey)
    IN  [k \in 1..Len(signing) |-> gitlab_PublicKey_from(signing[k])]

\* api_keys.into_iter().map(PublicKey::from)
github_keys(api_keys) == [k \in 1..Len(api_keys) |-> github_PublicKey_from(api_keys[k])]

\* Variant: a next URL is followed whether or not it is the URL just fetched.
page_step_follow_any(prov, current_url, keys, o) ==
    LET response == IF prov = "GitHub" THEN github_make_api_request(o)
                    ELSE gitlab_make_api_request(o)
        link == next_url_from_link_header(o.link)
        next_page == IF link.ok THEN link.val ELSE None
        new_keys == keys \o (IF prov = "GitHub" THEN github_keys(o.page)
                             ELSE gitlab_signing_keys(o.page))
    IN  IF ~response.ok THEN [done |-> TRUE, out |-> response, keys |-> <<>>, url |-> current_url]
        ELSE IF o.body # "ok"
             THEN [done |-> TRUE, out |-> Error_from(json_error(o.body)), keys |-> <<>>,
                   url |-> current_url]
        ELSE IF next_page # None
             THEN [done |-> FALSE, out |-> Pending, keys |-> new_keys, url |-> next_page[1]]
        ELSE [done |-> TRUE, out |-> Ok(new_keys), keys |-> <<>>, url |-> current_url]

\* One iteration of the `while let Some(current_url) = next_url.take()` loop
\* of get_keys_by_username, given the outcome of the request: the result of
\* the call when it returns in this iteration, the keys and the next URL.
page_step(prov, current_url, keys, o) ==
    LET response == IF prov = "GitHub" THEN github_make_api_request(o)
                    ELSE gitlab_make_api_request(o)
        link == next_url_from_link_header(o.link)
        next_page == IF link.ok THEN link.val ELSE None
        new_keys == keys \o (IF prov = "GitHub" THEN github_keys(o.page)
                             ELSE gitlab_signing_keys(o.page))
    IN  IF ~response.ok THEN [done |-> TRUE, out |-> response, keys |-> <<>>, url |-> current_url]
        ELSE IF o.body # "ok"
             THEN [done |-> TRUE, out |-> Error_from(json_error(o.body)), keys |-> <<>>,
                   url |-> current_url]
        ELSE IF next_page # None /\ next_page[1] # current_url
             THEN [done |-> FALSE, out |-> Pending, keys |-> new_keys, url |-> next_page[1]]
        ELSE [done |-> TRUE, out |-> Ok(new_keys), keys |-> <<>>, url |-> current_url]

\* Variant: UserNotFound is passed on like every other error.
get_keys_match_all_hard(result) == result

\* The match of Signer::get_keys on the result of get_keys_by_username.
get_keys_match(result) ==
    IF result.ok THEN result
    ELSE IF result.err = "UserNotFound" THEN Ok(<<>>)
    ELSE result

----------------------------------------------------------------------------
(* allowed_signers::signer: the tasks of the two JoinSets *)

fileVars == <<disk, creates, file_entries, idx, buf, ioFailed, writeOut, runOut>>

\* A signer's future is polled for the first time: Signer::get_keys spawns
\* one task per source into its JoinSet and waits in join_next.
SignerStart(i) ==
    /\ pc = "resolve"
    /\ sState[i] = "spawned"
    /\ sState' = [sState EXCEPT ![i] = "running"]
    /\ tState' = [tState EXCEPT ![i] = [j \in SourceIds(i) |-> "inflight"]]
    /\ UNCHANGED <<prior, pc, sKeys, sOut, tUrl, tKeys, tPages, tRes, tOut, entries, resOut>>
    /\ UNCHANGED <<fileVars, cliVars, unitVars>>

\* A task of a signer's JoinSet receives the answer to its request and runs
\* one iteration of Source::get_keys_by_username; when the call returns, the
\* task ends with the output the closure of Signer::get_keys gives it.
FetchPage(i, j, o) ==
    /\ pc = "resolve"
    /\ tState[i][j] = "inflight"
    /\ Len(tPages[i][j]) < MaxPages
    /\ \E r \in {page_step(provider(i, j), tUrl[i][j], tKeys[i][j], o)} :
           /\ tKeys' = [tKeys EXCEPT ![i][j] = r.keys]
           /\ tUrl' = [tUrl EXCEPT ![i][j] = r.url]
           /\ tPages' = [tPages EXCEPT ![i][j] =
                            IF r.done /\ ~get_keys_match(r.out).ok THEN <<>>
                            ELSE IF r.done /\ ~r.out.ok THEN @
                            ELSE Append(@, [url |-> tUrl[i][j], page |-> o.page])]
           /\ tState' = [tState EXCEPT ![i][j] = IF r.done THEN "done" ELSE "inflight"]
           /\ tRes' = [tRes EXCEPT ![i][j] = r.out]
           /\ tOut' = [tOut EXCEPT ![i][j] = IF r.done THEN get_keys_match(r.out) ELSE Pending]
    /\ UNCHANGED <<prior, pc, sState, sKeys, sOut, entries, resOut, newArgs>>
    /\ UNCHANGED <<fileVars, cliVars>>

GithubFetchPage(i, j) ==
    /\ pc = "resolve"
    /\ provider(i, j) = "GitHub"
    /\ \E o \in GithubOutcomes(tUrl[i][j]) : FetchPage(i, j, o)
    /\ UNCHANGED wire

GitlabFetchPage(i, j) ==
    /\ pc = "resolve"
    /\ provider(i, j) = "GitLab"
    /\ \E o \in GitlabOutcomes(tUrl[i][j]) : FetchPage(i, j, o)
    /\ UNCHANGED wire

\* Variant: the tasks of a dropped JoinSet are left as they are.
AbortTasks_detach(ts) == ts

\* Dropping a JoinSet aborts the tasks it still holds.
AbortTasks(ts) == [j \in DOMAIN ts |-> IF ts[j] = "joined" THEN "joined" ELSE "aborted"]

\* Signer::get_entries: keys.into_iter().map(|key| Entry::new(principals, key))
signer_entries(i, keys) == [k \in 1..Len(keys) |-> Entry_new(Signers[i].principals, keys[k])]

\* Variant: the keys of a task replace the keys collected before.
keys_extend_replace(keys, output) ==
    IF output.ok THEN [ret |-> FALSE, acc |-> output.val, err |-> Pending]
    ELSE [ret |-> TRUE, acc |-> <<>>, err |-> output]

\* `keys.extend(output.unwrap()?)` in Signer::get_keys: the keys after the
\* statement, or the error it returns.
keys_extend(keys, output) ==
    IF output.ok THEN [ret |-> FALSE, acc |-> keys \o output.val, err |-> Pending]
    ELSE [ret |-> TRUE, acc |-> <<>>, err |-> output]

\* Variant: the error of a signer is skipped instead of returned.
entries_extend_skip_err(es, output) ==
    [ret |-> FALSE, acc |-> es \o output.val, err |-> Pending]

\* `entries.extend(output.unwrap()?)` in get_entries.
entries_extend(es, output) ==
    IF output.ok THEN [ret |-> FALSE, acc |-> es \o output.val, err |-> Pending]
    ELSE [ret |-> TRUE, acc |-> <<>>, err |-> output]

\* Signer::get_keys: `set.join_next().await` hands over the output of a
\* finished task; `?` returns its error, dropping the JoinSet; after the
\* last task Signer::get_entries returns the entries of the keys.
SignerJoinNext(i) ==
    /\ pc = "resolve"
    /\ sState[i] = "running"
    /\ \E j \in SourceIds(i) :
        /\ tState[i][j] = "done"
        /\ LET r == keys_extend(sKeys[i], tOut[i][j])
               last == \A k \in SourceIds(i) \ {j} : tState[i][k] = "joined"
           IN  IF ~r.ret
               THEN /\ tState' = [tState EXCEPT ![i][j] = "joined"]
                    /\ sKeys' = [sKeys EXCEPT ![i] = IF last THEN <<>> ELSE r.acc]
                    /\ sState' = [sState EXCEPT ![i] = IF last THEN "done" ELSE "running"]
                    /\ sOut' = [sOut EXCEPT ![i] = IF last THEN Ok(signer_entries(i, r.acc))
                                                   ELSE Pending]
               ELSE /\ tState' = [tState EXCEPT ![i] = AbortTasks([@ EXCEPT ![j] = "joined"])]
                    /\ sKeys' = [sKeys EXCEPT ![i] = <<>>]
                    /\ sState' = [sState EXCEPT ![i] = "done"]
                    /\ sOut' = [sOut EXCEPT ![i] = r.err]
    /\ UNCHANGED <<prior, pc, tUrl, tKeys, tPages, tRes, tOut, entries, resOut>>
    /\ UNCHANGED <<fileVars, cliVars, unitVars>>

\* get_entries(signers): `set.join_next().await` hands over the output of a
\* finished signer; `?` returns its error to update, which returns it,
\* dropping the JoinSet; after the last signer the entries are returned.
RunJoinNext ==
    /\ pc = "resolve"
    /\ \E i \in SignerIds :
        /\ sState[i] = "done"
        /\ LET r == entries_extend(entries, sOut[i])
               last == \A k \in SignerIds \ {i} : sState[k] = "joined"
           IN  IF ~r.ret
               THEN /\ sState' = [sState EXCEPT ![i] = "joined"]
                    /\ entries' = r.acc
                    /\ resOut' = IF last THEN Ok(r.acc) ELSE Pending
                    /\ pc' = IF last THEN "collect" ELSE "resolve"
                    /\ UNCHANGED <<tState, runOut>>
               ELSE /\ sState' = [k \in SignerIds |->
                                    IF k = i \/ sState[k] = "joined" THEN "joined" ELSE "aborted"]
                    /\ tState' = [k \in SignerIds |->
                                    IF sState[k] \in {"spawned", "joined"} \/ k = i
                                    THEN tState[k] ELSE AbortTasks(tState[k])]
                    /\ entries' = <<>>
                    /\ resOut' = r.err
                    /\ runOut' = r.err
                    /\ pc' = "done"
    /\ UNCHANGED <<prior, disk, creates, file_entries, idx, buf, ioFailed, writeOut,
                   sKeys, sOut, tUrl, tKeys, tPages, tRes, tOut>>
    /\ UNCHANGED <<cliVars, unitVars>>

----------------------------------------------------------------------------
(* What the user is told when the update fails *)

\* The status as thiserror prints it for `{0}`.
StatusCode_fmt(status) ==
    IF status = 500 THEN "500 Internal Server Error"
    ELSE IF status = 503 THEN "503 Service Unavailable"
    ELSE "status"

\* #[error(..)] of source::Error and of ResponseError: the literal pieces
\* and the interpolated values of the message, in order.
Error_fmt(e) ==
    IF e.err = "BadCredentials" THEN <<"used credentials are invalid">>
    ELSE IF e.err = "RatelimitExceeded" THEN <<"rate limit has been exceeded">>
    ELSE IF e.err = "UserNotFound" THEN <<"requested user could not be found">>
    ELSE IF e.err = "ConnectionError" THEN <<"connection error occurred">>
    ELSE IF e.err = "ClientError" THEN <<"client request error">>
    ELSE IF e.err = "UnexpectedStatusCode"
         THEN <<"invalid response, ", "unexpected status code ", StatusCode_fmt(e.status)>>
    ELSE IF e.err = "InvalidResponseBody" THEN <<"invalid response, ", "body is invalid">>
    ELSE IF e.err = "MalformedResponseHeader"
         THEN <<"invalid response, ", "malformed ", "name", " header: ", "msg">>
    ELSE <<"io error">>

\* The error update_allowed_signers returns: the error of update under the
\* context added by `.context(..)`.
update_allowed_signers_error(e) ==
    <<"Failed to update the allowed signers file">> \o Error_fmt(e)

----------------------------------------------------------------------------
(* File::write *)

\* fs::File::create(&self.path)?
Create ==
    /\ pc = "create"
    /\ \E ok \in BOOLEAN :
        IF ok
        THEN /\ disk' = <<>>
             /\ creates' = creates + 1
             /\ idx' = 1
             /\ buf' = <<>>
             /\ pc' = "write"
             /\ UNCHANGED <<ioFailed, writeOut, runOut>>
        ELSE /\ writeOut' = Err("Io", 0)
             /\ runOut' = Err("Io", 0)
             /\ ioFailed' = TRUE
             /\ pc' = "done"
             /\ UNCHANGED <<disk, creates, idx, buf>>
    /\ UNCHANGED <<prior, sState, sKeys, sOut, tState, tUrl, tKeys, tPages, tRes, tOut,
                   entries, resOut, file_entries>>
    /\ UNCHANGED <<cliVars, unitVars>>

\* BufWriter::write_all(data) with the outcomes of the (at most two) writes
\* it makes on the file: the buffer and the file afterwards, whether the
\* call succeeded, and whether a write on the file failed.
BufWriter_write_all(b, d, data, flushOk, directOk) ==
    IF Len(data) < BufCap - Len(b)
    THEN [buf |-> b \o data, disk |-> d, ok |-> TRUE, failed |-> FALSE]
    ELSE LET needFlush == Len(data) > BufCap - Len(b)
         IN  IF needFlush /\ b # <<>> /\ ~flushOk
             THEN [buf |-> b, disk |-> d, ok |-> FALSE, failed |-> TRUE]
             ELSE LET b1 == IF needFlush THEN <<>> ELSE b
                      d1 == IF needFlush THEN d \o b ELSE d
                  IN  IF Len(data) >= BufCap
                      THEN IF directOk
                           THEN [buf |-> b1, disk |-> d1 \o data, ok |-> TRUE, failed |-> FALSE]
                           ELSE [buf |-> b1, disk |-> d1, ok |-> FALSE, failed |-> TRUE]
                      ELSE [buf |-> b1 \o data, disk |-> d1, ok |-> TRUE, failed |-> FALSE]

\* for entry in &self.entries { writeln!(file_buf, "{entry}")?; }
\* The text of one line is handed to the BufWriter in one piece.
WriteEntry ==
    /\ pc = "write"
    /\ idx <= Len(file_entries)
    /\ \E flushOk \in BOOLEAN, directOk \in BOOLEAN :
        LET r == BufWriter_write_all(buf, disk, Entry_fmt(file_entries[idx]) \o StrNewline,
                                     flushOk, directOk)
        IN  /\ buf' = r.buf
            /\ disk' = r.disk
            /\ ioFailed' = (ioFailed \/ r.failed)
            /\ IF r.ok
               THEN /\ idx' = idx + 1
                    /\ UNCHANGED <<pc, writeOut>>
               ELSE /\ writeOut' = Err("Io", 0)
                    /\ pc' = "drop"
                    /\ UNCHANGED idx
    /\ UNCHANGED <<prior, creates, sState, sKeys, sOut, tState, tUrl, tKeys, tPages,
                   tRes, tOut, entries, resOut, file_entries, runOut>>
    /\ UNCHANGED <<cliVars, unitVars>>

\* writeln!(file_buf)?; Ok(())
WriteFinalNewline ==
    /\ pc = "write"
    /\ idx = Len(file_entries) + 1
    /\ \E flushOk \in BOOLEAN, directOk \in BOOLEAN :
        LET r == BufWriter_write_all(buf, disk, StrNewline, flushOk, directOk)
        IN  /\ buf' = r.buf
            /\ disk' = r.disk
            /\ ioFailed' = (ioFailed \/ r.failed)
            /\ writeOut' = IF r.ok THEN Ok(<<>>) ELSE Err("Io", 0)
            /\ pc' = "drop"
    /\ UNCHANGED <<prior, creates, idx, sState, sKeys, sOut, tState, tUrl, tKeys,
                   tPages, tRes, tOut, entries, resOut, file_entries, runOut>>
    /\ UNCHANGED <<cliVars, unitVars>>

\* End of File::write: `file_buf` goes out of scope. <BufWriter as Drop>::drop
\* flushes the buffer and discards the result of the flush; update then
\* returns the result of File::write.
DropBufWriter ==
    /\ pc = "drop"
    /\ \E flushOk \in BOOLEAN :
        IF buf = <<>> \/ flushOk
        THEN /\ disk' = disk \o buf
             /\ buf' = <<>>
             /\ UNCHANGED ioFailed
        ELSE /\ ioFailed' = TRUE
             /\ UNCHANGED <<disk, buf>>
    /\ runOut' = writeOut
    /\ pc' = "done"
    /\ UNCHANGED <<prior, creates, idx, sState, sKeys, sOut, tState, tUrl, tKeys,
                   tPages, tRes, tOut, entries, resOut, file_entries, writeOut>>
    /\ UNCHANGED <<cliVars, unitVars>>

\* let file = File::from_entries(path.to_path_buf(), entries);
Collect ==
    /\ pc = "collect"
    /\ file_entries' = from_entries(entries)
    /\ pc' = "create"
    /\ UNCHANGED <<prior, disk, creates, idx, buf, ioFailed, writeOut, runOut, sState,
                   sKeys, sOut, tState, tUrl, tKeys, tPages, tRes, tOut, entries, resOut>>
    /\ UNCHANGED <<cliVars, unitVars>>

\* keys.into_iter().map(|key| Entry::new(principals, key)).collect(): the
\* entries of the calls in `newArgs`; a panic of Entry::new ends the run.
NewEntries ==
    /\ pc = "new"
    /\ \E made \in {[k \in 1..Len(newArgs) |-> Entry_new(newArgs[k].principals, newArgs[k].key)]} :
         IF \E k \in 1..Len(made) : IsPanic(made[k])
         THEN /\ pc' = "panicked"
              /\ UNCHANGED <<entries, resOut>>
         ELSE /\ pc' = "collect"
              /\ entries' = made
              /\ resOut' = Ok(made)
    /\ UNCHANGED <<prior, sState, sKeys, sOut, tState, tUrl, tKeys, tPages, tRes, tOut,
                   file_entries, wire, newArgs>>
    /\ UNCHANGED <<fileVars, cliVars>>

\* Entry::new for every key, File::from_entries(path, entries) and
\* file.write(), for any sequence of calls of Entry::new and any prior
\* content of the path.
InitFile ==
    /\ prior \in {NoFile, Dust}
    /\ disk = prior
    /\ creates = 0
    /\ pc = "new"
    /\ sState = <<>> /\ sKeys = <<>> /\ sOut = <<>>
    /\ tState = <<>> /\ tUrl = <<>> /\ tKeys = <<>> /\ tPages = <<>> /\ tRes = <<>> /\ tOut = <<>>
    /\ entries = <<>>
    /\ resOut = Pending
    /\ file_entries = <<>>
    /\ idx = 0
    /\ buf = <<>>
    /\ ioFailed = FALSE
    /\ writeOut = Pending
    /\ runOut = Pending
    /\ wire = NoAnswer
    /\ newArgs \in SeqsUpTo(NewArgsPool, MaxEntries)
    /\ cli = <<>> /\ config = <<>> /\ configFile = NoFile /\ cliOut = Pending

NextFile == NewEntries \/ Collect \/ Create \/ WriteEntry \/ WriteFinalNewline \/ DropBufWriter

SpecFile == InitFile /\ [][NextFile]_vars

\* allowed_signers::update(path, signers) has been called: every signer has
\* been spawned into the JoinSet of get_entries.
Init ==
    /\ prior \in {NoFile, Dust}
    /\ disk = prior
    /\ creates = 0
    /\ pc = "resolve"
    /\ sState = [i \in SignerIds |-> "spawned"]
    /\ sKeys = [i \in SignerIds |-> <<>>]
    /\ sOut = [i \in SignerIds |-> Pending]
    /\ tState = [i \in SignerIds |-> [j \in SourceIds(i) |-> "unspawned"]]
    /\ tUrl = [i \in SignerIds |-> [j \in SourceIds(i) |-> FirstUrl]]
    /\ tKeys = [i \in SignerIds |-> [j \in SourceIds(i) |-> <<>>]]
    /\ tPages = [i \in SignerIds |-> [j \in SourceIds(i) |-> <<>>]]
    /\ tRes = [i \in SignerIds |-> [j \in SourceIds(i) |-> Pending]]
    /\ tOut = [i \in SignerIds |-> [j \in SourceIds(i) |-> Pending]]
    /\ entries = <<>>
    /\ resOut = Pending
    /\ file_entries = <<>>
    /\ idx = 0
    /\ buf = <<>>
    /\ ioFailed = FALSE
    /\ writeOut = Pending
    /\ runOut = Pending
    /\ wire = NoAnswer
    /\ newArgs = <<>>
    /\ cli = <<>> /\ config = <<>> /\ configFile = NoFile /\ cliOut = Pending

Next ==
    \/ \E i \in SignerIds : SignerStart(i)
    \/ \E i \in SignerIds : \E j \in SourceIds(i) : GithubFetchPage(i, j)
    \/ \E i \in SignerIds : \E j \in SourceIds(i) : GitlabFetchPage(i, j)
    \/ \E i \in SignerIds : SignerJoinNext(i)
    \/ RunJoinNext
    \/ Collect
    \/ Create
    \/ WriteEntry
    \/ WriteFinalNewline
    \/ DropBufWriter

Spec == Init /\ [][Next]_vars

----------------------------------------------------------------------------
(* Source::get_keys_by_username called on its own *)

\* One adapter is asked for the keys of one user, as the tests of the
\* adapters do: the call of one (signer, source) pair of the configuration
\* runs alone and is given every answer of GithubWire / GitlabWire.
GithubCall(i, j) ==
    /\ provider(i, j) = "GitHub"
    /\ \E o \in GithubWire(tUrl[i][j]) : FetchPage(i, j, o) /\ wire' = o

GitlabCall(i, j) ==
    /\ provider(i, j) = "GitLab"
    /\ \E o \in GitlabWire(tUrl[i][j]) : FetchPage(i, j, o) /\ wire' = o

InitAdapter ==
    /\ prior = NoFile
    /\ disk = prior
    /\ creates = 0
    /\ pc = "resolve"
    /\ sState = [i \in SignerIds |-> "spawned"]
    /\ sKeys = [i \in SignerIds |-> <<>>]
    /\ sOut = [i \in SignerIds |-> Pending]
    /\ \E a \in SignerIds : \E b \in SourceIds(a) :
         tState = [i \in SignerIds |-> [j \in SourceIds(i) |->
                     IF i = a /\ j = b THEN "inflight" ELSE "unspawned"]]
    /\ tUrl = [i \in SignerIds |-> [j \in SourceIds(i) |-> FirstUrl]]
    /\ tKeys = [i \in SignerIds |-> [j \in SourceIds(i) |-> <<>>]]
    /\ tPages = [i \in SignerIds |-> [j \in SourceIds(i) |-> <<>>]]
    /\ tRes = [i \in SignerIds |-> [j \in SourceIds(i) |-> Pending]]
    /\ tOut = [i \in SignerIds |-> [j \in SourceIds(i) |-> Pending]]
    /\ entries = <<>>
    /\ resOut = Pending
    /\ file_entries = <<>>
    /\ idx = 0
    /\ buf = <<>>
    /\ ioFailed = FALSE
    /\ writeOut = Pending
    /\ runOut = Pending
    /\ wire = NoAnswer
    /\ newArgs = <<>>
    /\ cli = <<>> /\ config = <<>> /\ configFile = NoFile /\ cliOut = Pending

NextAdapter ==
    \/ \E i \in SignerIds : \E j \in SourceIds(i) : GithubCall(i, j)
    \/ \E i \in SignerIds : \E j \in SourceIds(i) : GitlabCall(i, j)

SpecAdapter == InitAdapter /\ [][NextAdapter]_vars

----------------------------------------------------------------------------
(* Properties of the resolution (specification Spec) *)

TaskIds == {<<i, j>> : i \in SignerIds, j \in {1, 2}} \cap
           UNION {{<<i, j>> : j \in SourceIds(i)} : i \in SignerIds}

Returned(t) == tState[t[1]][t[2]] \in {"done", "joined", "aborted"} /\ tRes[t[1]][t[2]] # Pending
HardError(t) == Returned(t) /\ ~tRes[t[1]][t[2]].ok /\ tRes[t[1]][t[2]].err # "UserNotFound"
UserNotFound(t) == Returned(t) /\ ~tRes[t[1]][t[2]].ok /\ tRes[t[1]][t[2]].err = "UserNotFound"
ReturnedKeys(t) == Returned(t) /\ tRes[t[1]][t[2]].ok

\* One entry per key, carrying the principals of signer i.
EntriesOf(i, keys) == [k \in 1..Len(keys) |-> [principals |-> Signers[i].principals, key |-> keys[k]]]

\* C1: once a request of the run has returned an error other than
\* UserNotFound, the target file keeps its prior content (or absence): it is
\* never created, truncated or written, and the run ends with an error.
C1_HardErrorLeavesFileUntouched ==
    (\E t \in TaskIds : HardError(t)) =>
        /\ disk = prior
        /\ creates = 0
        /\ pc \in {"resolve", "done"}
        /\ pc = "done" => (~runOut.ok /\ runOut # Pending)

C1_Witness ==
    /\ pc = "done"
    /\ prior = Dust
    /\ \E t \in TaskIds : HardError(t) /\ tRes[t[1]][t[2]].err = "ConnectionError"
    /\ \E t \in TaskIds : ReturnedKeys(t) /\ tRes[t[1]][t[2]].val # <<>>

\* C2: when one source of a signer answers UserNotFound and its other source
\* returns keys, the signer's task ends with exactly one entry per key of
\* that other source, carrying the signer's principals; a UserNotFound is
\* never the error of a task, of a signer or of the run, and the resolution
\* succeeds when every request ended with keys or with UserNotFound.
C2_UserNotFoundIsSoft ==
    /\ \A i \in SignerIds : \A a \in SourceIds(i) : \A b \in SourceIds(i) :
         ( /\ SourceIds(i) = {a, b}
           /\ a # b
           /\ UserNotFound(<<i, a>>)
           /\ ReturnedKeys(<<i, b>>)
           /\ sState[i] \in {"done", "joined"} )
         => sOut[i] = Ok(EntriesOf(i, tRes[i][b].val))
    /\ \A t \in TaskIds : UserNotFound(t) => tOut[t[1]][t[2]] = Ok(<<>>)
    /\ (pc # "resolve" /\ \A t \in TaskIds : UserNotFound(t) \/ ReturnedKeys(t)) => resOut.ok
    /\ \A i \in SignerIds : sOut[i].err # "UserNotFound"
    /\ resOut.err # "UserNotFound"
    /\ runOut.err # "UserNotFound"

C2_Witness ==
    /\ pc = "done"
    /\ runOut.ok
    /\ UserNotFound(<<1, 1>>)
    /\ ReturnedKeys(<<1, 2>>)
    /\ Len(tRes[1][2].val) = 2
    /\ sOut[1] = Ok(EntriesOf(1, tRes[1][2].val))

\* Entries expected from the results of all tasks, in a fixed order.
RECURSIVE ExpectedOfSources(_, _)
ExpectedOfSources(i, j) ==
    IF j = 0 THEN <<>>
    ELSE ExpectedOfSources(i, j - 1)
         \o (IF tRes[i][j].ok THEN EntriesOf(i, tRes[i][j].val) ELSE <<>>)

RECURSIVE ExpectedOfSigners(_)
ExpectedOfSigners(i) ==
    IF i = 0 THEN <<>>
    ELSE ExpectedOfSigners(i - 1) \o ExpectedOfSources(i, Len(Signers[i].sources))

ExpectedEntries == ExpectedOfSigners(Len(Signers))

Count(s, x) == Cardinality({k \in 1..Len(s) : s[k] = x})
SameBag(s, t) ==
    /\ Len(s) = Len(t)
    /\ \A x \in Range(s) \cup Range(t) : Count(s, x) = Count(t, x)

\* C3: whatever the order in which the tasks finish and are joined, the
\* resolution succeeds exactly when no task returned an error other than
\* UserNotFound, and then the collected entries are, as a multiset, one
\* entry per key of every source that returned keys, with the principals of
\* the signer the source was queried for.
C3_SuccessIffNoHardError ==
    pc # "resolve" =>
        /\ resOut # Pending
        /\ resOut.ok <=> ~(\E t \in TaskIds : HardError(t))
        /\ resOut.ok => /\ \A t \in TaskIds : Returned(t)
                        /\ resOut.val = entries
                        /\ SameBag(entries, ExpectedEntries)

C3_Witness ==
    /\ pc = "collect"
    /\ resOut.ok
    /\ tRes[1][1].ok /\ tRes[1][1].val # <<>>
    /\ tRes[1][2].ok /\ tRes[1][2].val # <<>>
    /\ tRes[2][1].ok /\ tRes[2][1].val # <<>>
    /\ entries # ExpectedEntries
    /\ entries[1].principals = Signers[2].principals

----------------------------------------------------------------------------
(* The text of an allowed_signers file, stated from the file format *)

\* An entry as the tuple that identifies it: the principals in order, the
\* key blob, and the two bounds as instants.
Instant(o) == IF o = None THEN None ELSE Some(<<o[1].date, o[1].secs, o[1].frac>>)
TupleOf(e) == <<e.principals, e.key.blob, Instant(e.key.valid_after), Instant(e.key.valid_before)>>

\* YYYYMMDDHHMMSS in UTC of the instants used, from the calendar.
KnownUtcDigits(dt) ==
    CASE dt.date = 21915 /\ dt.secs = 0 ->
            <<50, 48, 51, 48, 48, 49, 48, 49, 48, 48, 48, 48, 48, 48>>
      [] dt.date = 19825 /\ dt.secs = 10800 ->
            <<50, 48, 50, 52, 48, 52, 49, 50, 48, 51, 48, 48, 48, 48>>
      [] dt.date = 20188 /\ dt.secs = 0 ->
            <<50, 48, 50, 53, 48, 52, 49, 48, 48, 48, 48, 48, 48, 48>>
      [] dt.date = 20187 /\ dt.secs = 82800 ->
            <<50, 48, 50, 53, 48, 52, 48, 57, 50, 51, 48, 48, 48, 48>>

ExpectedLine(e) ==
    e.principals[1]
    \o Concat([k \in 1..(Len(e.principals) - 1) |-> <<44>> \o e.principals[k + 1]])
    \o (IF e.key.valid_after = None THEN <<>>
        ELSE StrValidAfter \o KnownUtcDigits(e.key.valid_after[1]) \o <<90>>)
    \o (IF e.key.valid_before = None THEN <<>>
        ELSE StrValidBefore \o KnownUtcDigits(e.key.valid_before[1]) \o <<90>>)
    \o <<32>> \o e.key.blob

\* The first k lines of a file holding the entries es in this order.
ExpectedLines(es, k) == Concat([n \in 1..k |-> ExpectedLine(es[n]) \o <<10>>])
ExpectedText(es) == ExpectedLines(es, Len(es)) \o <<10>>

IsPrefix(a, b) == Len(a) <= Len(b) /\ a = SubSeq(b, 1, Len(a))

\* The structural order of entries, stated without the comparison operators
\* of the model: the first position where two sequences differ decides.
StrBefore(a, b) ==
    \E k \in 1..(Len(a) + 1) :
        /\ k <= Len(b)
        /\ \A n \in 1..(k - 1) : a[n] = b[n]
        /\ k = Len(a) + 1 \/ a[k] < b[k]
PrincipalsBefore(a, b) ==
    \E k \in 1..(Len(a) + 1) :
        /\ k <= Len(b)
        /\ \A n \in 1..(k - 1) : a[n] = b[n]
        /\ k = Len(a) + 1 \/ StrBefore(a[k], b[k])
InstantBefore(x, y) ==
    \/ x = None /\ y # None
    \/ x # None /\ y # None /\ StrBefore(x[1], y[1])
Before(e, f) ==
    LET a == TupleOf(e)
        b == TupleOf(f)
    IN  \/ PrincipalsBefore(a[1], b[1])
        \/ a[1] = b[1] /\ StrBefore(a[2], b[2])
        \/ a[1] = b[1] /\ a[2] = b[2] /\ InstantBefore(a[3], b[3])
        \/ a[1] = b[1] /\ a[2] = b[2] /\ a[3] = b[3] /\ InstantBefore(a[4], b[4])

\* The entries of a set in ascending order, one per tuple.
RECURSIVE Ascending(_)
Ascending(S) ==
    IF S = {} THEN <<>>
    ELSE LET m == CHOOSE x \in S : \A y \in S : ~Before(y, x)
         IN  <<m>> \o Ascending({y \in S : TupleOf(y) # TupleOf(m)})

----------------------------------------------------------------------------
(* Properties of the run, continued (specification Spec) *)

\* C4: the bytes of the file after a successful run are determined by the
\* keys the sources returned alone: they are the text of the expected
\* entries in ascending order, whatever the order of completion and of
\* joining was.
C4_SameKeysSameBytes ==
    (pc = "done" /\ runOut.ok) => disk = ExpectedText(Ascending(Range(ExpectedEntries)))

IsGitlab(t) == provider(t[1], t[2]) = "GitLab"

\* The keys (blob and expiry instant) of the received pages that may sign.
ServedSigning(t) ==
    { <<a.key, Instant(deserialize_expires_at(a.expires_at))>> :
        a \in { x \in UNION {Range(pg.page) : pg \in Range(tPages[t[1]][t[2]])} :
                  x.usage_type \in {"signing", "auth_and_signing"} } }

HasBytes(text, b1, b2) == \E n \in 1..(Len(text) - 1) : text[n] = b1 /\ text[n + 1] = b2

\* C5: every key the GitLab adapter holds or returns comes from a received
\* API key whose usage_type is `signing` or `auth_and_signing`; the blob that
\* the server only ever lists with usage_type `auth` reaches neither the
\* entries nor the bytes of the file.
C5_NoAuthOnlyKey ==
    /\ \A t \in {u \in TaskIds : IsGitlab(u)} :
         \A k \in Range(tKeys[t[1]][t[2]]) \cup Range(tRes[t[1]][t[2]].val) :
            /\ <<k.blob, Instant(k.valid_before)>> \in ServedSigning(t)
            /\ k.valid_after = None
    /\ \A e \in Range(entries) \cup Range(file_entries) : e.key.blob # KA
    /\ \A i \in SignerIds : \A e \in Range(sOut[i].val) : e.key.blob # KA
    /\ ~HasBytes(disk, 107, 65)
    /\ ~HasBytes(buf, 107, 65)

C5_Witness ==
    /\ pc = "done"
    /\ runOut.ok
    /\ ~ioFailed
    /\ Len(tPages[2][1]) = 2
    /\ \A pg \in Range(tPages[2][1]) : \E a \in Range(pg.page) : a.usage_type = "auth"
    /\ Len(tRes[2][1].val) = 3
    /\ HasBytes(disk, 107, 50)

----------------------------------------------------------------------------
(* Properties of the file (specification SpecFile) *)

\* C6: the entry set holds exactly one entry per distinct tuple (principals
\* in order, key blob, valid_after, valid_before, the bounds taken as
\* instants): equal tuples are stored once, every tuple handed in is stored,
\* and every stored entry is one that was handed in.
C6_OneEntryPerTuple ==
    pc # "collect" =>
        /\ \A a \in 1..Len(file_entries) : \A b \in 1..Len(file_entries) :
             a # b => TupleOf(file_entries[a]) # TupleOf(file_entries[b])
        /\ {TupleOf(e) : e \in Range(entries)} = {TupleOf(f) : f \in Range(file_entries)}
        /\ Range(file_entries) \subseteq Range(entries)

C6_Witness ==
    /\ pc = "create"
    /\ Len(entries) = 3
    /\ Len(file_entries) = 2
    /\ \E a \in 1..2 : \E b \in 1..2 :
         /\ file_entries[a].key.blob = file_entries[b].key.blob
         /\ \/ file_entries[a].principals = <<PA, PB>> /\ file_entries[b].principals = <<PB, PA>>
            \/ /\ file_entries[a].principals = file_entries[b].principals
               /\ file_entries[a].key.valid_before # file_entries[b].key.valid_before

\* C7: the entries are written in strictly ascending structural order
\* (principals element by element, then blob, then valid_after, then
\* valid_before, an absent bound before a present one), and what is in the
\* file is a prefix of the lines in that order.
C7_LinesAscending ==
    pc # "collect" =>
        /\ \A a \in 1..Len(file_entries) : \A b \in 1..Len(file_entries) :
             a < b => Before(file_entries[a], file_entries[b])
        /\ creates > 0 => IsPrefix(disk, ExpectedText(file_entries))

C7_Witness ==
    /\ pc = "done"
    /\ runOut.ok
    /\ Len(file_entries) = 3
    /\ disk = ExpectedText(file_entries)
    /\ file_entries[1].principals = file_entries[2].principals
    /\ file_entries[1].key.blob = file_entries[2].key.blob
    /\ file_entries[1].key.valid_after = None
    /\ file_entries[2].key.valid_after # None
    /\ entries[1] = file_entries[3]

C9_WriteOkMeansFullFile ==
    (pc = "done" /\ writeOut.ok) => (disk = ExpectedText(file_entries) /\ creates = 1)

\* C10: a run in which an I/O operation on the target file failed does not
\* report success.
C10_IoFailureFailsRun ==
    (pc = "done" /\ ioFailed) => ~runOut.ok

----------------------------------------------------------------------------
(* Properties of the adapters (specification SpecAdapter) *)

\* The call under way or returned: the task that has been started.
Called(t) == tState[t[1]][t[2]] # "unspawned"
PagesOf(t) == tPages[t[1]][t[2]]
ResultOf(t) == tRes[t[1]][t[2]]
HasReturned(t) == tState[t[1]][t[2]] = "done"

\* Rate-limit headers that are absent or hold numbers of an instant.
CleanRatelimits == {RatelimitAbsent, RatelimitValid, Ratelimit(Hdr59, None)}

\* The last answer is a page: status 200, a body that decodes, and (for
\* GitHub, which reads them) rate-limit headers that are absent or numbers.
PageReceived(t) ==
    /\ Called(t)
    /\ wire.kind = "response"
    /\ wire.status = 200
    /\ wire.body = "ok"
    /\ IsGitlab(t) \/ wire.ratelimit \in CleanRatelimits
    /\ PagesOf(t) # <<>>

\* The keys a page stands for, as (blob, valid_after, instant of
\* valid_before): every key of a GitHub page, the signing keys of a GitLab
\* page.
KeyViews(keys) ==
    [k \in 1..Len(keys) |-> <<keys[k].blob, keys[k].valid_after, Instant(keys[k].valid_before)>>]

MaySign(a) == a.usage_type \in {"signing", "auth_and_signing"}

PageViews(t, page) ==
    LET listed == IF IsGitlab(t) THEN SelectSeq(page, MaySign) ELSE page
    IN  [k \in 1..Len(listed) |->
            <<listed[k].key, None, Instant(deserialize_expires_at(listed[k].expires_at))>>]

RECURSIVE PagesViews(_, _)
PagesViews(t, pages) ==
    IF pages = <<>> THEN <<>>
    ELSE PagesViews(t, SubSeq(pages, 1, Len(pages) - 1)) \o PageViews(t, pages[Len(pages)].page)

LastUrl(t) == PagesOf(t)[Len(PagesOf(t))].url

\* `Link` values whose rel="next" URL is the given URL.
SelfLinks(url) ==
    {LinkNext(url)} \cup (IF url = FirstUrl THEN {LinkUpperFirst} ELSE {})

\* C11: in both adapters, after a page whose `Link` header names the URL
\* just fetched as rel="next", the call has returned, without a further
\* request, the keys of the pages received so far.
C11_SelfNextStops ==
    \A t \in TaskIds :
        (PageReceived(t) /\ wire.link \in SelfLinks(LastUrl(t))) =>
            /\ HasReturned(t)
            /\ ResultOf(t).ok
            /\ KeyViews(ResultOf(t).val) = PagesViews(t, PagesOf(t))
            /\ wire.page = PagesOf(t)[Len(PagesOf(t))].page

C11_Witness ==
    \E t \in TaskIds :
        /\ PageReceived(t)
        /\ Len(PagesOf(t)) = 2
        /\ LastUrl(t) = NextUrl
        /\ wire.link = LinkNext(NextUrl)
        /\ HasReturned(t)
        /\ Len(ResultOf(t).val) >= 2

\* C12: in both adapters, a page whose `Link` header is malformed (no
\* closing `>`, an empty rel, a URL that does not parse, or a value that is
\* not text) ends the pagination without an error: the call has returned
\* Ok with the keys of every page received, that page included.
C12_MalformedLinkStops ==
    \A t \in TaskIds :
        (PageReceived(t) /\ wire.link \in MalformedLinks) =>
            /\ HasReturned(t)
            /\ ResultOf(t).ok
            /\ PagesOf(t)[Len(PagesOf(t))].page = wire.page
            /\ KeyViews(ResultOf(t).val) = PagesViews(t, PagesOf(t))

C12_Witness ==
    \E t \in TaskIds :
        /\ IsGitlab(t)
        /\ PageReceived(t)
        /\ Len(PagesOf(t)) = 2
        /\ wire.link = LinkNotText
        /\ ResultOf(t).ok
        /\ Len(ResultOf(t).val) = 3

\* C13: for the GitHub adapter the x-ratelimit-remaining and
\* x-ratelimit-reset headers change nothing: whatever they hold, a page
\* (status 200, a body that decodes) never ends the call with an error; the
\* call goes on to the next page or has returned the keys of the pages.
C13_RatelimitHeadersIgnored ==
    \A t \in TaskIds :
        ( /\ Called(t)
          /\ ~IsGitlab(t)
          /\ wire.kind = "response"
          /\ wire.status = 200
          /\ wire.body = "ok" ) =>
            \/ ResultOf(t) = Pending
            \/ ResultOf(t).ok /\ KeyViews(ResultOf(t).val) = PagesViews(t, PagesOf(t))

\* Messages that hold the phrase, in whatever case.
MentionsRateLimit == {MsgRateLimit}
MentionsBadCredentials == {MsgBadCredentials}

GenericStatusError(status) ==
    IF status >= 400 /\ status <= 499 THEN Err("ClientError", status)
    ELSE Err("UnexpectedStatusCode", status)

\* C14: the GitHub adapter returns exactly one error for an answer with an
\* error status: UserNotFound for 404 whatever the body; RatelimitExceeded
\* for 403 when the body is JSON whose message holds "rate limit exceeded"
\* in any case, BadCredentials for 401 when it holds "bad credentials" in
\* any case; for every other such answer ClientError(status) for 4xx and
\* the unexpected-status error for 5xx.
C14_GithubErrorMapping ==
    \A t \in TaskIds :
        (Called(t) /\ ~IsGitlab(t) /\ wire.kind = "response" /\ wire.status >= 400) =>
            /\ HasReturned(t)
            /\ ResultOf(t) =
                 IF wire.status = 404 THEN Err("UserNotFound", 0)
                 ELSE IF wire.status = 403 /\ wire.body = "ok" /\ wire.msg \in MentionsRateLimit
                      THEN Err("RatelimitExceeded", 0)
                 ELSE IF wire.status = 401 /\ wire.body = "ok" /\ wire.msg \in MentionsBadCredentials
                      THEN Err("BadCredentials", 0)
                 ELSE GenericStatusError(wire.status)

C14_Witness ==
    \E t \in TaskIds :
        /\ ~IsGitlab(t)
        /\ wire.status = 403
        /\ wire.msg = MsgRateLimit
        /\ ResultOf(t) = Err("RatelimitExceeded", 0)

\* C15: the GitLab adapter returns UserNotFound for 404 and BadCredentials
\* for 401 whatever the body says, and for every other error status the
\* result of the shared classifier: ClientError(status) for 4xx, the
\* unexpected-status error carrying the status for 5xx.
C15_GitlabErrorMapping ==
    \A t \in TaskIds :
        (Called(t) /\ IsGitlab(t) /\ wire.kind = "response" /\ wire.status >= 400) =>
            /\ HasReturned(t)
            /\ ResultOf(t) =
                 IF wire.status = 404 THEN Err("UserNotFound", 0)
                 ELSE IF wire.status = 401 THEN Err("BadCredentials", 0)
                 ELSE GenericStatusError(wire.status)

C15_Witness ==
    \E t \in TaskIds :
        /\ IsGitlab(t)
        /\ wire.status = 401
        /\ wire.msg = MsgNotFound
        /\ ResultOf(t) = Err("BadCredentials", 0)

\* An error status for which the adapter has a rule of its own.
OwnRule(t, o) ==
    \/ o.status = 404
    \/ IsGitlab(t) /\ o.status = 401
    \/ ~IsGitlab(t) /\ o.status = 403 /\ o.body = "ok" /\ o.msg \in MentionsRateLimit
    \/ ~IsGitlab(t) /\ o.status = 401 /\ o.body = "ok" /\ o.msg \in MentionsBadCredentials

\* The last answer has status 200 and headers the adapter accepts.
HeadersAccepted(t) ==
    /\ wire.kind = "response"
    /\ wire.status = 200
    /\ IsGitlab(t) \/ wire.ratelimit \in CleanRatelimits

\* C16: in both adapters every outcome without a rule of the adapter's own
\* ends the call with the error of the shared classifier: ConnectionError
\* when the request fails to connect or times out, and also when reading
\* the body times out (the timeout is looked at first); the
\* unexpected-status error with the code for 500-599, ClientError with the
\* code for 400-499; the invalid-body error when the body cannot be read or
\* decoded.
C16_SharedClassifier ==
    \A t \in TaskIds :
        Called(t) =>
            /\ (wire.kind = "request" /\ wire.cause \in {"connect", "timeout"})
                  => ResultOf(t) = Err("ConnectionError", 0)
            /\ (wire.kind = "response" /\ wire.status >= 500 /\ wire.status <= 599)
                  => ResultOf(t) = Err("UnexpectedStatusCode", wire.status)
            /\ ( /\ wire.kind = "response"
                 /\ wire.status >= 400
                 /\ wire.status <= 499
                 /\ ~OwnRule(t, wire) )
                  => ResultOf(t) = Err("ClientError", wire.status)
            /\ (HeadersAccepted(t) /\ wire.body = "timeout")
                  => ResultOf(t) = Err("ConnectionError", 0)
            /\ (HeadersAccepted(t) /\ wire.body \in {"body", "decode"})
                  => ResultOf(t) = Err("InvalidResponseBody", 0)

C16_Witness ==
    \E t \in TaskIds :
        /\ HeadersAccepted(t)
        /\ tUrl[t[1]][t[2]] = NextUrl
        /\ wire.body = "timeout"
        /\ ResultOf(t) = Err("ConnectionError", 0)

----------------------------------------------------------------------------
(* Properties of the entries (specification SpecFile) *)

LineStarts(text) == {n \in 1..Len(text) : n = 1 \/ text[n - 1] = 10}

\* C17: Entry::new panics when it is given no principal, and then no entry
\* exists and the file is not touched; otherwise the entry holds the
\* principals and the key it was given. So every entry that is collected,
\* stored in the set or written has at least one principal: no line of the
\* file begins with the blank that follows the principals.
C17_EntriesHavePrincipals ==
    /\ (pc # "new" /\ \E k \in 1..Len(newArgs) : newArgs[k].principals = <<>>) =>
          /\ pc = "panicked"
          /\ entries = <<>> /\ file_entries = <<>>
          /\ disk = prior /\ creates = 0
    /\ (pc # "new" /\ \A k \in 1..Len(newArgs) : newArgs[k].principals # <<>>) =>
          /\ pc # "panicked"
          /\ Len(entries) = Len(newArgs)
          /\ \A k \in 1..Len(newArgs) :
                /\ entries[k].principals = newArgs[k].principals
                /\ entries[k].key = newArgs[k].key
    /\ \A e \in Range(entries) \cup Range(file_entries) : Len(e.principals) >= 1
    /\ creates > 0 => \A n \in LineStarts(disk \o buf) : (disk \o buf)[n] # 32

C17_Witness ==
    /\ pc = "panicked"
    /\ prior = Dust
    /\ disk = Dust
    /\ Len(newArgs) = 3
    /\ newArgs[1].principals = <<PB, PA>>
    /\ newArgs[3].principals = <<>>

----------------------------------------------------------------------------
(* Properties of the report (specification Spec) *)

SignerName(t) == Signers[t[1]].name
SourceName(t) == Signers[t[1]].sources[t[2]]

\* C18: when the run has ended with the error of a request, what the user
\* is told names a signer and a source whose request failed with that
\* error.
C18_ReportNamesSignerAndSource ==
    (pc = "done" /\ ~runOut.ok /\ \E t \in TaskIds : HardError(t)) =>
        \E t \in TaskIds :
            /\ HardError(t)
            /\ tRes[t[1]][t[2]] = runOut
            /\ SignerName(t) \in Range(update_allowed_signers_error(runOut))
            /\ SourceName(t) \in Range(update_allowed_signers_error(runOut))

----------------------------------------------------------------------------
(* config: the TOML configuration file and `hanko signer add` *)

StrGithub == <<103, 105, 116, 104, 117, 98>>
StrGitlab == <<103, 105, 116, 108, 97, 98>>
StrAcme == <<97, 99, 109, 101>>
StrZed == <<122, 101, 100>>
StrOctocat == <<111, 99, 116, 111, 99, 97, 116>>
StrTorvalds == <<116, 111, 114, 118, 97, 108, 100, 115>>
StrCwoods == <<99, 119, 111, 111, 100, 115>>
StrMissingSources == <<77, 105, 115, 115, 105, 110, 103, 32, 115, 111, 117, 114, 99, 101, 115, 58, 32>>
StrCommaSpace == <<44, 32>>
StrSigner == <<83, 105, 103, 110, 101, 114, 32>>
StrMissingPrincipals == <<32, 109, 105, 115, 115, 105, 110, 103, 32, 112, 114, 105, 110, 99, 105, 112, 97, 108, 115>>

\* anyhow::Error: the message of the cause in `val`, the outermost context
\* in `err`.
Bail(message) == [ok |-> FALSE, val |-> message, err |-> "", status |-> 0]
Context(result, context) == IF result.ok THEN result ELSE [result EXCEPT !.err = context]

\* config::default_user_source
default_user_source == <<StrGithub>>

SourceConfiguration(name, source_type, url) ==
    [name |-> name, provider |-> source_type, url |-> url]

\* Configuration::default_sources
default_sources ==
    <<SourceConfiguration(StrGithub, "Github", "https://api.github.com"),
      SourceConfiguration(StrGitlab, "Gitlab", "https://gitlab.com")>>

\* One table of the `signers` key: `sources` is None when the table has no
\* such key.
Table(name, principals, sources) ==
    [name |-> name, principals |-> principals, sources |-> sources]

\* The text of a configuration file, as the document toml_edit keeps for it:
\* how the `signers` key is written ("none" when the key is absent, "tables"
\* for [[signers]], "inline" for an array of inline tables), the tables of
\* the key in order, and the [[sources]] tables (None when the key is
\* absent).  The layout "invalid" is a text that is not TOML, the layout
\* "absent" stands for a path without a file.
Document(layout, signers, sources) ==
    [layout |-> layout, signers |-> signers, sources |-> sources]

NoConfigFile == Document("absent", <<>>, None)
NotToml == Document("invalid", <<>>, None)
\* TomlFile::default: the empty document.
EmptyDocument == Document("none", <<>>, None)

SourceAcme == SourceConfiguration(StrAcme, "Gitlab", "https://git.acme.corp")
\* A source of the file under the name of a default source.
SourceOwnGithub == SourceConfiguration(StrGithub, "Github", "https://github.acme.corp")

\* Configuration files a user may have.
ConfigFiles ==
    { NoConfigFile, NotToml,
      Document("tables", <<Table(StrOctocat, <<PA>>, None)>>, None),
      Document("inline", <<Table(StrTorvalds, <<PB>>, None),
                           Table(StrCwoods, <<PA>>, Some(<<StrGitlab>>))>>, None),
      Document("tables", <<Table(StrTorvalds, <<PB>>, Some(<<StrAcme>>))>>, Some(<<SourceAcme>>)),
      Document("none", <<>>, Some(<<SourceAcme>>)),
      Document("tables", <<Table(StrOctocat, <<PA>>, None)>>, Some(<<SourceOwnGithub>>)),
      Document("tables", <<Table(StrOctocat, <<PA>>, Some(<<StrZed>>))>>, None),
      Document("tables", <<Table(StrOctocat, <<>>, None)>>, None) }

\* ManageSigners::Add: the arguments of `hanko signer add`.
Add(name, principals, source, no_update) ==
    [name |-> name, principals |-> principals, source |-> source, no_update |-> no_update]

AddArgs ==
    { Add(n, p, s, u) :
        n \in {StrOctocat, StrTorvalds},
        p \in {<<PA>>, <<PB>>},
        s \in {default_user_source, <<StrGitlab>>, <<StrAcme>>, <<StrZed, StrAcme>>,
               <<StrZed, StrGithub, StrZed>>},
        u \in BOOLEAN }

\* SignerConfiguration as serde reads it from a table: `sources` defaults
\* to default_user_source().
SignerConfiguration(name, principals, source_names) ==
    [name |-> name, principals |-> principals, source_names |-> source_names]

SignerConfiguration_deserialize(table) ==
    SignerConfiguration(table.name, table.principals,
                        IF table.sources = None THEN default_user_source ELSE table.sources[1])

Configuration(signers, sources, file) ==
    [signers |-> signers, sources |-> sources, file |-> file]

\* Configuration::default
Configuration_default == Configuration(<<>>, default_sources, EmptyDocument)

\* TomlFile::add_signer
TomlFile_add_signer(document, name, principals, source_names) ==
    LET table == Table(name, principals,
                       IF source_names # default_user_source THEN Some(source_names) ELSE None)
    IN  [document EXCEPT !.layout = IF @ = "none" THEN "tables" ELSE @,
                         !.signers = Append(@, table)]

\* TomlFile::load: read_to_string, then parse.
TomlFile_load(content) ==
    IF content = NoConfigFile THEN Err("NotFound", 0)
    ELSE IF content = NotToml THEN Bail(<<>>)
    ELSE Ok(content)

\* Variant: the document is not written.
TomlFile_save_discard(document, content, io_ok) == content

\* TomlFile::save: the document written to a temporary file that then
\* replaces the file at the path; `io_ok` tells whether that succeeded.
TomlFile_save(document, content, io_ok) == IF io_ok THEN document ELSE content

\* impl TryFrom<TomlFile> for Configuration: a missing key takes the value
\* of Configuration::default().
Configuration_try_from(document) ==
    Configuration([k \in 1..Len(document.signers) |->
                      SignerConfiguration_deserialize(document.signers[k])],
                  IF document.sources = None THEN default_sources ELSE document.sources[1],
                  document)

\* Configuration::add_default_sources
add_default_sources(c) == [c EXCEPT !.sources = @ \o default_sources]

\* Vec<String>::sort of the names of a set.
RECURSIVE sort_strings(_)
sort_strings(names) ==
    IF names = {} THEN <<>>
    ELSE LET first == CHOOSE x \in names : \A y \in names : StrCmp(x, y) # Greater
         IN  <<first>> \o sort_strings(names \ {first})

\* Configuration::check_sources_exist
check_sources_exist(c, source_names) ==
    LET used_sources == Range(source_names)
        existing_sources == {c.sources[k].name : k \in 1..Len(c.sources)}
        missing_sources == used_sources \ existing_sources
    IN  IF missing_sources # {}
        THEN Bail(StrMissingSources \o join(sort_strings(missing_sources), StrCommaSpace))
        ELSE Ok(<<>>)

\* Configuration::check_signers_have_one_or_more_principals
check_signers_have_one_or_more_principals(c) ==
    LET without == {k \in 1..Len(c.signers) : c.signers[k].principals = <<>>}
        first == CHOOSE k \in without : \A m \in without : k <= m
    IN  IF without # {} THEN Bail(StrSigner \o c.signers[first].name \o StrMissingPrincipals)
        ELSE Ok(<<>>)

\* Variant: only the principals are validated.
validate_semantics_principals_only(c) == check_signers_have_one_or_more_principals(c)

\* Configuration::validate_semantics
validate_semantics(c) ==
    LET used == Concat([k \in 1..Len(c.signers) |-> c.signers[k].source_names])
    IN  IF ~check_sources_exist(c, used).ok THEN check_sources_exist(c, used)
        ELSE check_signers_have_one_or_more_principals(c)

\* Configuration::load
Configuration_load(content) ==
    LET file == TomlFile_load(content)
        c == add_default_sources(Configuration_try_from(file.val))
    IN  IF ~file.ok THEN file
        ELSE IF ~validate_semantics(c).ok THEN validate_semantics(c)
        ELSE Ok(c)

\* Configuration::load_or_default; `dir_ok` tells whether create_dir_all
\* succeeds.
load_or_default(content, dir_ok) ==
    LET loaded == Configuration_load(content)
    IN  IF loaded.ok THEN loaded
        ELSE IF loaded.err = "NotFound"
             THEN (IF dir_ok THEN Ok(Configuration_default) ELSE Bail(<<>>))
        ELSE loaded

\* Variant: the sources are checked after the signer has been added.
Configuration_add_signer_check_last(c, name, principals, source_names) ==
    LET checked == check_sources_exist(c, source_names)
        signer == SignerConfiguration(name, principals, source_names)
    IN  [result |-> checked,
         config |-> [c EXCEPT !.file = TomlFile_add_signer(@, signer.name, signer.principals,
                                                           signer.source_names),
                              !.signers = Append(@, signer)]]

\* Configuration::add_signer: the result and the configuration afterwards.
Configuration_add_signer(c, name, principals, source_names) ==
    LET checked == check_sources_exist(c, source_names)
        signer == SignerConfiguration(name, principals, source_names)
    IN  IF ~checked.ok THEN [result |-> checked, config |-> c]
        ELSE [result |-> Ok(<<>>),
              config |-> [c EXCEPT !.file = TomlFile_add_signer(@, signer.name, signer.principals,
                                                                signer.source_names),
                                   !.signers = Append(@, signer)]]

\* SourceConfiguration::build_source: the adapter and its base URL.
build_source(source) == [provider |-> source.provider, url |-> source.url]

\* Configuration::sources: the map collected from the (name, source) pairs
\* in the order of `sources`; a later pair replaces an earlier one of the
\* same name.
Configuration_sources(c) ==
    LET names == {c.sources[k].name : k \in 1..Len(c.sources)}
        last(n) == CHOOSE k \in 1..Len(c.sources) :
                      /\ c.sources[k].name = n
                      /\ \A m \in 1..Len(c.sources) : c.sources[m].name = n => m <= k
    IN  [n \in names |-> build_source(c.sources[last(n)])]

\* Configuration::signers: `expect` panics on a name the map does not hold.
Configuration_signers(c, sources) ==
    IF \E k \in 1..Len(c.signers) : \E n \in Range(c.signers[k].source_names) :
          n \notin DOMAIN sources
    THEN Panic("signer references source that does not exist, config not validated correctly")
    ELSE Ok([k \in 1..Len(c.signers) |->
               [name |-> c.signers[k].name, principals |-> c.signers[k].principals,
                sources |-> [j \in 1..Len(c.signers[k].source_names) |->
                               sources[c.signers[k].source_names[j]]]]])

\* cli::entrypoint, Commands::Signer(ManageSigners::Add), in three steps:
\* the configuration is loaded, the signer added, the file saved.
notCliVars ==
    <<prior, disk, creates, sState, sKeys, sOut, tState, tUrl, tKeys, tPages, tRes, tOut,
      entries, resOut, file_entries, idx, buf, ioFailed, writeOut, runOut, wire, newArgs>>

LoadOrDefault ==
    /\ pc = "cli_load"
    /\ \E dir_ok \in BOOLEAN : \E r \in {load_or_default(configFile, dir_ok)} :
         IF r.ok
         THEN config' = r.val /\ pc' = "cli_add" /\ UNCHANGED cliOut
         ELSE /\ cliOut' = Context(r, "Failed to load configuration from")
              /\ pc' = "cli_failed"
              /\ UNCHANGED config
    /\ UNCHANGED <<cli, configFile, notCliVars>>

AddSigner ==
    /\ pc = "cli_add"
    /\ \E r \in {Configuration_add_signer(config, cli.name, cli.principals, cli.source)} :
         /\ config' = r.config
         /\ IF r.result.ok
            THEN pc' = "cli_save" /\ UNCHANGED cliOut
            ELSE /\ cliOut' = Context(r.result, "Failed to add allowed signer")
                 /\ pc' = "cli_failed"
    /\ UNCHANGED <<cli, configFile, notCliVars>>

\* After the save: `--no-update` ends the command, otherwise
\* update_allowed_signers runs next.
Save ==
    /\ pc = "cli_save"
    /\ \E io_ok \in BOOLEAN :
         /\ configFile' = TomlFile_save(config.file, configFile, io_ok)
         /\ IF ~io_ok
            THEN cliOut' = Context(Bail(<<>>), "Failed to save configuration to") /\ pc' = "cli_failed"
            ELSE IF cli.no_update THEN cliOut' = Ok(<<>>) /\ pc' = "cli_done"
            ELSE UNCHANGED cliOut /\ pc' = "cli_update"
    /\ UNCHANGED <<cli, config, notCliVars>>

\* cli::update_allowed_signers up to the call of allowed_signers::update:
\* the sources and the signers are built and every signer is spawned into
\* the JoinSet of get_entries.
UpdateAllowedSigners ==
    /\ pc = "cli_update"
    /\ IF IsPanic(Configuration_signers(config, Configuration_sources(config)))
       THEN /\ pc' = "panicked"
            /\ UNCHANGED <<sState, sKeys, sOut, tState, tUrl, tKeys, tPages, tRes, tOut>>
       ELSE /\ pc' = "resolve"
            /\ sState' = [i \in SignerIds |-> "spawned"]
            /\ sKeys' = [i \in SignerIds |-> <<>>]
            /\ sOut' = [i \in SignerIds |-> Pending]
            /\ tState' = [i \in SignerIds |-> [j \in SourceIds(i) |-> "unspawned"]]
            /\ tUrl' = [i \in SignerIds |-> [j \in SourceIds(i) |-> FirstUrl]]
            /\ tKeys' = [i \in SignerIds |-> [j \in SourceIds(i) |-> <<>>]]
            /\ tPages' = [i \in SignerIds |-> [j \in SourceIds(i) |-> <<>>]]
            /\ tRes' = [i \in SignerIds |-> [j \in SourceIds(i) |-> Pending]]
            /\ tOut' = [i \in SignerIds |-> [j \in SourceIds(i) |-> Pending]]
    /\ UNCHANGED <<prior, entries, resOut, fileVars, cliVars, unitVars>>

InitConfig ==
    /\ prior = NoFile
    /\ disk = prior
    /\ creates = 0
    /\ pc = "cli_load"
    /\ sState = <<>> /\ sKeys = <<>> /\ sOut = <<>>
    /\ tState = <<>> /\ tUrl = <<>> /\ tKeys = <<>> /\ tPages = <<>> /\ tRes = <<>> /\ tOut = <<>>
    /\ entries = <<>>
    /\ resOut = Pending
    /\ file_entries = <<>>
    /\ idx = 0
    /\ buf = <<>>
    /\ ioFailed = FALSE
    /\ writeOut = Pending
    /\ runOut = Pending
    /\ wire = NoAnswer
    /\ newArgs = <<>>
    /\ cli \in AddArgs
    /\ config = <<>>
    /\ configFile \in ConfigFiles
    /\ cliOut = Pending

NextConfig == LoadOrDefault \/ AddSigner \/ Save \/ UpdateAllowedSigners

SpecConfig == InitConfig /\ [][NextConfig]_vars

\* `hanko signer add ernie b@x a@x --source gitlab [--no-update]` on a
\* configuration file that holds the signer jsnow with the sources github
\* and gitlab (or on a file that is not TOML), followed by the update of
\* the allowed signers file: the signers of the configuration after the
\* command are the signers of the run.
StrJsnow == <<106, 115, 110, 111, 119>>
StrErnie == <<101, 114, 110, 105, 101>>

JsnowFile ==
    Document("tables", <<Table(StrJsnow, <<PA>>, Some(<<StrGithub, StrGitlab>>))>>, None)

InitCli ==
    /\ prior \in {NoFile, Dust}
    /\ disk = prior
    /\ creates = 0
    /\ pc = "cli_load"
    /\ sState = <<>> /\ sKeys = <<>> /\ sOut = <<>>
    /\ tState = <<>> /\ tUrl = <<>> /\ tKeys = <<>> /\ tPages = <<>> /\ tRes = <<>> /\ tOut = <<>>
    /\ entries = <<>>
    /\ resOut = Pending
    /\ file_entries = <<>>
    /\ idx = 0
    /\ buf = <<>>
    /\ ioFailed = FALSE
    /\ writeOut = Pending
    /\ runOut = Pending
    /\ wire = NoAnswer
    /\ newArgs = <<>>
    /\ cli \in {Add(StrErnie, <<PB, PA>>, <<StrGitlab>>, u) : u \in BOOLEAN}
    /\ config = <<>>
    /\ configFile \in {JsnowFile, NotToml}
    /\ cliOut = Pending

NextCli ==
    \/ LoadOrDefault
    \/ AddSigner
    \/ Save
    \/ UpdateAllowedSigners
    \/ \E i \in SignerIds : SignerStart(i)
    \/ \E i \in SignerIds : \E j \in SourceIds(i) : GithubFetchPage(i, j)
    \/ \E i \in SignerIds : \E j \in SourceIds(i) : GitlabFetchPage(i, j)
    \/ \E i \in SignerIds : SignerJoinNext(i)
    \/ RunJoinNext
    \/ Collect
    \/ Create
    \/ WriteEntry
    \/ WriteFinalNewline
    \/ DropBufWriter

SpecCli == InitCli /\ [][NextCli]_vars

----------------------------------------------------------------------------
(* Properties of `signer add` (specification SpecConfig) *)

\* The signers the file at the path holds under the name of the command.
SameName == {k \in 1..Len(configFile.signers) : configFile.signers[k].name = cli.name}

\* A signer of the file with the name, the principals and the sources of
\* the command.
Identical ==
    \E k \in SameName :
        SignerConfiguration_deserialize(configFile.signers[k])
            = SignerConfiguration(cli.name, cli.principals, cli.source)

\* C19: a step of `signer add` for a name the configuration file already
\* holds leaves the file as it is, and the command gets past the save
\* only if the given principals and sources are those of the existing
\* signer.
C19_ExistingNameKeepsFile ==
    [][SameName # {} =>
          /\ configFile' = configFile
          /\ pc' \in {"cli_done", "cli_update"} => Identical]_vars

\* The names of the command that no source of the loaded configuration has.
MissingNames == {n \in Range(cli.source) : \A k \in 1..Len(config.sources) : config.sources[k].name # n}

\* The names of a set, each once, in ascending order.
AscendingNames(names) ==
    CHOOSE q \in [1..Cardinality(names) -> names] :
        /\ Range(q) = names
        /\ \A m, n \in 1..Len(q) : m < n => StrBefore(q[m], q[n])

\* The names of a sequence separated by a comma and a space.
Listed(q) == Concat([k \in 1..Len(q) |-> IF k = 1 THEN q[k] ELSE <<44, 32>> \o q[k]])

\* C20: when a source name given to Configuration::add_signer is not among
\* the sources of the configuration, the call returns the error
\* "Missing sources: " followed by the missing names in ascending order,
\* separated by ", ", and the signers in memory, the TOML document and the
\* file are what they were before the call.
C20_MissingSourcesChangeNothing ==
    [][(pc = "cli_add" /\ MissingNames # {}) =>
          /\ config' = config
          /\ configFile' = configFile
          /\ pc' = "cli_failed"
          /\ ~cliOut'.ok
          /\ cliOut'.val = StrMissingSources \o Listed(AscendingNames(MissingNames))]_vars

\* `signer add torvalds ... --source zed --source acme` on a file with two
\* signers has failed with "Missing sources: acme, zed".
C20_Witness ==
    /\ pc = "cli_failed"
    /\ cliOut.err = "Failed to add allowed signer"
    /\ cliOut.val = <<77, 105, 115, 115, 105, 110, 103, 32, 115, 111, 117, 114, 99, 101, 115, 58, 32, 97, 99, 109, 101, 44, 32, 122, 101, 100>>
    /\ cli.source = <<StrZed, StrAcme>>
    /\ configFile.layout = "inline"
    /\ Len(config.signers) = 2
    /\ config.file = configFile

\* The configuration has been loaded.
Loaded == pc \in {"cli_add", "cli_save", "cli_done", "cli_update", "resolve", "panicked"}

\* The file holds a signer without principals, or a signer naming a source
\* that is neither a source of the file nor a default source.
FileInvalid ==
    \E k \in 1..Len(configFile.signers) :
        \/ configFile.signers[k].principals = <<>>
        \/ /\ configFile.signers[k].sources # None
           /\ \E n \in Range(configFile.signers[k].sources[1]) :
                 /\ n \notin {StrGithub, StrGitlab}
                 /\ \/ configFile.sources = None
                    \/ \A m \in 1..Len(configFile.sources[1]) : configFile.sources[1][m].name # n

\* C21: every signer of a loaded configuration, before and after
\* add_signer, names only sources the configuration holds, building the
\* signers never panics, and a file with a signer naming a missing source
\* or having no principals is not loaded.
C21_SignersReferenceExistingSources ==
    /\ pc # "panicked"
    /\ Loaded =>
          /\ \A k \in 1..Len(config.signers) : \A n \in Range(config.signers[k].source_names) :
                \E m \in 1..Len(config.sources) : config.sources[m].name = n
          /\ Configuration_signers(config, Configuration_sources(config)).ok
    /\ FileInvalid => ~Loaded

\* The signers have been built from a file whose signer names a source of
\* the file, after a signer naming that source has been added.
C21_Witness ==
    /\ pc = "resolve"
    /\ Len(config.signers) = 2
    /\ config.signers[1].source_names = <<StrAcme>>
    /\ config.signers[2].source_names = <<StrAcme>>
    /\ configFile = config.file

----------------------------------------------------------------------------
(* Properties of the pagination (specification SpecAdapter) *)

\* The rel="next" URL a `Link` value advertises, read off the value by
\* hand: the URL of its first segment with rel next, None when it has no
\* such segment or is malformed.
AdvertisedNext(link) ==
    IF link \in {LinkNext(u) : u \in Urls} THEN Some(CHOOSE u \in Urls : link = LinkNext(u))
    ELSE IF link \in {LinkPrevNext, LinkTwoNext} THEN Some(NextUrl)
    ELSE IF link = LinkUpperFirst THEN Some(FirstUrl)
    ELSE None

NextRequest(t) == tUrl[t[1]][t[2]]

----------------------------------------------------------------------------
(* Properties of the keys an adapter returns (specification SpecAdapter) *)

\* The API keys of the pages in page order: all of them for GitHub, those
\* that may sign for GitLab.
RECURSIVE ApiKeysOf(_, _)
ApiKeysOf(t, pages) ==
    IF pages = <<>> THEN <<>>
    ELSE ApiKeysOf(t, SubSeq(pages, 1, Len(pages) - 1))
         \o (IF IsGitlab(t) THEN SelectSeq(pages[Len(pages)].page, MaySign)
             ELSE pages[Len(pages)].page)

\* Seconds since the epoch of a stored timestamp and of a timestamp as sent.
EpochSecs(dt) == dt.date * DaySecs + dt.secs
WireEpochSecs(w) == w.ldate * DaySecs + w.lsecs - w.off

\* The timestamp is the one sent: same instant, same offset.
SameTimestamp(dt, w) ==
    /\ EpochSecs(dt) = WireEpochSecs(w)
    /\ dt.frac = w.frac
    /\ dt.off = w.off

\* C23: no key an adapter returns has a valid_after; a key of the GitHub
\* adapter has no valid_before; a key of the GitLab adapter has the
\* expires_at of its API key as valid_before when the API key has one and
\* no valid_before otherwise.
C23_ValidityWindowOfReturnedKeys ==
    \A t \in TaskIds :
        (HasReturned(t) /\ ResultOf(t).ok) =>
            LET keys == ResultOf(t).val
                api == ApiKeysOf(t, PagesOf(t))
            IN  /\ Len(keys) = Len(api)
                /\ \A k \in 1..Len(keys) :
                      /\ keys[k].blob = api[k].key
                      /\ keys[k].valid_after = None
                      /\ ~IsGitlab(t) => keys[k].valid_before = None
                      /\ (IsGitlab(t) /\ api[k].expires_at = None) => keys[k].valid_before = None
                      /\ (IsGitlab(t) /\ api[k].expires_at # None) =>
                            /\ keys[k].valid_before # None
                            /\ SameTimestamp(keys[k].valid_before[1], api[k].expires_at[1])

\* A GitLab call has returned a key without expiry and a key whose expiry
\* was sent with an offset of two hours.
C23_Witness ==
    \E t \in TaskIds :
        /\ IsGitlab(t)
        /\ HasReturned(t)
        /\ ResultOf(t).ok
        /\ Len(ResultOf(t).val) = 3
        /\ ResultOf(t).val[1].valid_before = None
        /\ ResultOf(t).val[2].valid_before # None
        /\ ResultOf(t).val[2].valid_before[1].off = 7200
        /\ ResultOf(t).val[3].valid_before # None

----------------------------------------------------------------------------
(* Properties of the shared classifier, continued (specification SpecAdapter) *)

\* C24: whatever failure the HTTP client reports for a request of an
\* adapter, the conversion of the error takes one of its four classifying
\* branches: no call ends in the panic of the last branch.
C24_ClassifierNeverPanics ==
    \A t \in TaskIds : Called(t) => ResultOf(t).err # "panic"

----------------------------------------------------------------------------
(* Properties of the orchestrator (specification Spec) *)

TaskState(t) == tState[t[1]][t[2]]

\* The run has ended with the error of a task.
EndedWithTaskError ==
    /\ pc = "done"
    /\ ~runOut.ok
    /\ \E t \in TaskIds : HardError(t) /\ ResultOf(t) = runOut

\* C25 as stated: when the run has ended with the hard error of a task, no
\* task has been cancelled; the tasks in flight are left running.
C25_InFlightTasksAbandoned ==
    (pc = "done" /\ \E t \in TaskIds : HardError(t)) =>
        /\ EndedWithTaskError
        /\ \A t \in TaskIds : TaskState(t) # "aborted"

\* C25, amended: when a task has returned a hard error and the run has
\* ended, it has ended with the hard error of a task, and no task is left
\* in flight or waiting to be joined: every task has been joined, was
\* never spawned, or was aborted when its JoinSet was dropped.
C25_HardErrorAbortsTasks ==
    (pc = "done" /\ \E t \in TaskIds : HardError(t)) =>
        /\ EndedWithTaskError
        /\ \A t \in TaskIds : TaskState(t) \in {"joined", "aborted", "unspawned"}

\* The run has ended with the error of one task while another task, which
\* had received a page and not yet returned, was aborted.
C25_Witness ==
    /\ EndedWithTaskError
    /\ \E t \in TaskIds :
          /\ TaskState(t) = "aborted"
          /\ ResultOf(t) = Pending
          /\ Len(PagesOf(t)) = 1

----------------------------------------------------------------------------
(* Properties of `signer add` followed by the update (specification SpecCli) *)

\* update_allowed_signers has been called and has built the signers.
Updating ==
    pc \notin {"cli_load", "cli_add", "cli_save", "cli_update", "cli_done", "cli_failed",
               "panicked"}

\* No source has been queried and the allowed signers file is as it was.
NothingQueriedOrWritten ==
    /\ tState = <<>>
    /\ tPages = <<>>
    /\ disk = prior
    /\ creates = 0

\* The configuration file holds the signer of the command as its last signer.
SignerSaved ==
    /\ configFile.signers # <<>>
    /\ configFile.signers[Len(configFile.signers)] = Table(cli.name, cli.principals, Some(cli.source))

\* C26: in `signer add` no source is queried and the allowed signers file
\* is not touched before the configuration has been saved; from the call of
\* the update on, whether it succeeds or fails, the configuration file
\* holds the added signer; with --no-update the update is never called, no
\* source is queried and the allowed signers file is neither created nor
\* written.
C26_SaveBeforeUpdate ==
    /\ ~Updating => NothingQueriedOrWritten
    /\ Updating => (SignerSaved /\ configFile = config.file)
    /\ cli.no_update => ~Updating
    /\ pc = "cli_done" => (cli.no_update /\ SignerSaved /\ cliOut.ok)

\* Both signers of the configuration have been queried, a request has
\* failed with a hard error and the update has ended with it, and the
\* configuration file still holds the added signer.
C26_Witness ==
    /\ pc = "done"
    /\ ~runOut.ok
    /\ \E t \in TaskIds : HardError(t) /\ PagesOf(<<2, 1>>) # <<>>
    /\ SignerSaved
    /\ Len(configFile.signers) = 2
    /\ [k \in 1..2 |-> config.signers[k].principals] = [k \in 1..2 |-> Signers[k].principals]
    /\ disk = prior

----------------------------------------------------------------------------
(* Properties of the pagination, continued (specification SpecAdapter) *)

\* C27: within one call no URL is requested twice: the URLs of the pages
\* fetched differ from each other, and the URL of the request under way is
\* none of them.
C27_NoUrlFetchedTwice ==
    \A t \in TaskIds :
        Called(t) =>
            /\ \A m, n \in 1..Len(PagesOf(t)) : m # n => PagesOf(t)[m].url # PagesOf(t)[n].url
            /\ ~HasReturned(t) =>
                  \A n \in 1..Len(PagesOf(t)) : PagesOf(t)[n].url # NextRequest(t)

----------------------------------------------------------------------------
(* Properties of the run: keys received and keys kept (specification Spec) *)

\* The API keys of the pages a fetch has received that stand for a signing
\* key: every key of a GitHub page, the keys of a GitLab page that may sign.
ReceivedSigning(t) ==
    { a \in UNION {Range(pg.page) : pg \in Range(PagesOf(t))} : IsGitlab(t) => MaySign(a) }

\* C28: when the resolution has succeeded, every signing key received on a
\* page of a fetch is the key of an entry with the principals of the
\* signer of that fetch; and a fetch that ended with UserNotFound had
\* received no page before.
C28_NoReceivedKeyDropped ==
    /\ (pc # "resolve" /\ resOut.ok) =>
          \A t \in TaskIds : \A a \in ReceivedSigning(t) :
              \E e \in Range(entries) :
                  e.principals = Signers[t[1]].principals /\ e.key.blob = a.key
    /\ \A t \in TaskIds : UserNotFound(t) => PagesOf(t) = <<>>

----------------------------------------------------------------------------
(* Properties of the lines of the file (specification SpecFile) *)

\* The lines of a text that ends every line with a newline.
LinesOf(text) == split(text, 10)

\* C29: in a file that File::write has written in full, the lines of two
\* different entries of the set differ, and no two entries of the set have
\* the same principals, blob and instants of their bounds.
C29_NoTwoLinesIdentical ==
    /\ (pc = "done" /\ writeOut.ok /\ ~ioFailed) =>
          \A m, n \in 1..Len(file_entries) :
              m # n => LinesOf(disk)[m] # LinesOf(disk)[n]
    /\ pc # "collect" =>
          \A m, n \in 1..Len(file_entries) :
              m # n => TupleOf(file_entries[m]) # TupleOf(file_entries[n])

----------------------------------------------------------------------------
(* Properties of the sources of a configuration (specification SpecConfig) *)

\* C30: once a file is loaded, a source the file defines under the name of
\* a default source (github or gitlab) is the source that
\* Configuration::sources builds for that name.
C30_UserSourceOverridesDefault ==
    (Loaded /\ configFile.sources # None) =>
        \A k \in 1..Len(configFile.sources[1]) :
            LET own == configFile.sources[1][k]
            IN  own.name \in {StrGithub, StrGitlab} =>
                    Configuration_sources(config)[own.name] = build_source(own)

====
